---- MODULE Spec2Model ----
(***************************************************************************)
(* Discovery-and-scoring pipeline of the startup intelligence system:      *)
(* StartupDiscoveryEngine (src/src/discovery/discovery_engine.py), the     *)
(* discover command (src/main.py), AIWashingDetector                       *)
(* (src/src/analysis/ai_washing_detector.py) and DatabaseManager           *)
(* (src/src/data/database.py).                                             *)
(*                                                                         *)
(* Python strings that the code takes apart (websites, names) are          *)
(* sequences of one-character strings, so that split, startswith, lower    *)
(* and strip are computed and not assumed.                                 *)
(***************************************************************************)
EXTENDS Integers, Sequences, FiniteSets, TLC

VARIABLES
    pc,                 \* position of run_discovery / run_daily_discovery
    issues,             \* Config.validate() lists an issue
    db_pool,            \* main.py's db.pool: "None" | "open" | "closed"
    engine_pool,        \* engine.db.pool, the pool of the engine's own DatabaseManager
    tables_created,     \* DatabaseManager._create_tables has completed
    yc_out, gw_out, li_out,   \* what each collector call gave
    all_companies,      \* _discover_companies' all_companies
    unique_companies,   \* what _deduplicate_companies returned
    analyzed_companies, \* _analyze_companies' analyzed_companies
    idx,                \* position of the loop of _analyze_companies (1-based)
    fail_log,           \* per analysed record, the step that raised ("none" if none)
    stats,              \* engine.stats
    report,             \* what run_daily_discovery returned
    error,              \* the exception that ended the run, with the stage it left
    result,             \* what run_discovery gave its caller
    discovery_runs,     \* rows of the discovery_runs table
    storage_failed,     \* a storage operation of this run has raised
    stages,             \* stages of run_daily_discovery entered so far, in order
    fn, arg, ret        \* a single call of a function: its name, input, output

vars == << pc, issues, db_pool, engine_pool, tables_created, yc_out, gw_out, li_out,
           all_companies, unique_companies, analyzed_companies, idx, fail_log, stats,
           report, error, result, discovery_runs, storage_failed, stages,
           fn, arg, ret >>

runVars == << pc, issues, db_pool, engine_pool, tables_created, yc_out, gw_out, li_out,
              all_companies, unique_companies, analyzed_companies, idx, fail_log, stats,
              report, error, result, discovery_runs, storage_failed, stages >>

callVars == << fn, arg, ret >>

\* Python's None, kept apart from every string (strings are sequences of
\* one-character strings, and no character is "None").
None == << "None" >>

-----------------------------------------------------------------------------
(* Strings *)

s_empty == << >>
s_sep   == << ":", "/", "/" >>
s_slash == << "/" >>
s_www   == << "w", "w", "w", "." >>
s_WWW   == << "W", "W", "W", "." >>
s_http  == << "h", "t", "t", "p", ":", "/", "/" >>
s_HTTPS == << "H", "T", "T", "P", "S", ":", "/", "/" >>
s_foo_com == << "f", "o", "o", ".", "c", "o", "m" >>
s_Foo_com == << "F", "o", "o", ".", "c", "o", "m" >>
s_bar_io  == << "b", "a", "r", ".", "i", "o" >>
s_about   == << "/", "a", "b", "o", "u", "t" >>

\* str.lower() on the characters the model uses
LowerChar(ch) ==
    CASE ch = "A" -> "a" [] ch = "B" -> "b" [] ch = "C" -> "c"
      [] ch = "F" -> "f" [] ch = "H" -> "h" [] ch = "O" -> "o"
      [] ch = "P" -> "p" [] ch = "S" -> "s" [] ch = "T" -> "t"
      [] ch = "W" -> "w" [] OTHER -> ch

lower(s) == [i \in 1..Len(s) |-> LowerChar(s[i])]

\* s.startswith(p)
startswith(s, p) == Len(s) >= Len(p) /\ SubSeq(s, 1, Len(p)) = p

\* positions at which p occurs in s
Occurrences(s, p) ==
    { i \in 1..(Len(s) - Len(p) + 1) : SubSeq(s, i, i + Len(p) - 1) = p }

\* p in s
contains(s, p) == Occurrences(s, p) # {}

FirstOccurrence(s, p) ==
    CHOOSE i \in Occurrences(s, p) : \A j \in Occurrences(s, p) : i <= j

\* s.split(p, 1)[0] and s.split(p, 1)[1], for p in s
split_head(s, p) == SubSeq(s, 1, FirstOccurrence(s, p) - 1)
split_tail(s, p) == SubSeq(s, FirstOccurrence(s, p) + Len(p), Len(s))

\* s.strip(): leading and trailing blanks removed
RECURSIVE lstrip(_)
lstrip(s) == IF s # << >> /\ Head(s) = " " THEN lstrip(Tail(s)) ELSE s

RECURSIVE rstrip(_)
rstrip(s) ==
    IF s # << >> /\ s[Len(s)] = " " THEN rstrip(SubSeq(s, 1, Len(s) - 1)) ELSE s

strip(s) == rstrip(lstrip(s))

-----------------------------------------------------------------------------
(* StartupDiscoveryEngine._extract_domain *)

\* mutant: a leading "www." is kept
_extract_domain_keep_www(url) ==
    IF url = None \/ url = s_empty THEN s_empty
    ELSE LET u1 == IF contains(url, s_sep) THEN split_tail(url, s_sep) ELSE url
             u2 == IF contains(u1, s_slash) THEN split_head(u1, s_slash) ELSE u1
         IN  lower(u2)

_extract_domain(url) ==
    IF url = None \/ url = s_empty THEN s_empty
    ELSE LET u1 == IF contains(url, s_sep) THEN split_tail(url, s_sep) ELSE url
             u2 == IF contains(u1, s_slash) THEN split_head(u1, s_slash) ELSE u1
             u3 == IF startswith(u2, s_www) THEN SubSeq(u2, 5, Len(u2)) ELSE u2
         IN  lower(u3)

-----------------------------------------------------------------------------
(* Company records *)

s_Acme == << "A", "c", "m", "e" >>
s_Foo  == << "F", "o", "o" >>
s_foo_padded == << " ", "f", "o", "o", " " >>
s_Cee  == << "C", "e", "e" >>

\* the raw (collector-supplied) fields the pipeline reads. location and
\* description are texts of which only the keyword matches matter: "seattle"
\* is a text naming a target location and "austin" one naming none, "health"
\* a text with a target-industry and healthcare keyword and "games" one with
\* neither; "" is the empty text. funding_stage "" and employees_count 0 are
\* what company.get() gives for a record without the key.
Company(name, website, source, location, description, funding_stage, employees_count) ==
    [ name |-> name, website |-> website, source |-> source,
      location |-> location, description |-> description,
      funding_stage |-> funding_stage, employees_count |-> employees_count ]

rec_A   == Company(s_Acme, s_foo_com, "y_combinator", "seattle", "health", "Series A", 50)
rec_B   == Company(s_Foo, None, "y_combinator", "austin", "games", "", 0)
rec_A2  == Company(s_Acme, s_www \o s_foo_com, "geekwire", "seattle", "games", "Seed", 0)
rec_C   == Company(s_Cee, s_bar_io, "linkedin_jobs", "seattle", "health", "Series B", 200)
rec_B2  == Company(s_foo_padded, None, "linkedin_jobs", "seattle", "games", "", 0)
rec_A3  == Company(s_Cee, s_HTTPS \o s_Foo_com \o s_about, "linkedin_jobs", "austin",
                   "health", "", 0)
rec_E   == Company(s_empty, None, "geekwire", "austin", "games", "", 0)
rec_E2  == Company(s_empty, s_empty, "linkedin_jobs", "seattle", "games", "", 0)
rec_W   == Company(s_Foo, s_http \o s_WWW \o s_bar_io \o s_slash, "geekwire", "seattle",
                   "health", "", 0)

DedupPool == { rec_A, rec_B, rec_A2, rec_C, rec_B2, rec_A3, rec_E, rec_E2, rec_W }

-----------------------------------------------------------------------------
(* StartupDiscoveryEngine._deduplicate_companies *)

\* lines 119-123: the unique key of one record
unique_key(company) ==
    LET domain == _extract_domain(company.website)
        company_name == strip(lower(company.name))
    IN  IF domain # s_empty THEN domain ELSE company_name

RECURSIVE dedup_loop_no_seen(_, _)
dedup_loop_no_seen(companies, unique) ==
    IF companies = << >> THEN unique
    ELSE LET company == Head(companies)
         IN  IF unique_key(company) # s_empty
             THEN dedup_loop_no_seen(Tail(companies), Append(unique, company))
             ELSE dedup_loop_no_seen(Tail(companies), unique)

\* mutant: the membership test against seen_domains is lost
_deduplicate_companies_no_seen(companies) == dedup_loop_no_seen(companies, << >>)

RECURSIVE dedup_loop_keep_last(_, _)
dedup_loop_keep_last(companies, unique) ==
    IF companies = << >> THEN unique
    ELSE LET company == Head(companies)
             key == unique_key(company)
             others == SelectSeq(unique, LAMBDA c : unique_key(c) # key)
         IN  IF key # s_empty
             THEN dedup_loop_keep_last(Tail(companies), Append(others, company))
             ELSE dedup_loop_keep_last(Tail(companies), unique)

\* mutant: a later record replaces the one seen first
_deduplicate_companies_keep_last(companies) == dedup_loop_keep_last(companies, << >>)

\* lines 118-127: the loop over companies, with seen_domains and unique_companies
RECURSIVE dedup_loop(_, _, _)
dedup_loop(companies, seen_domains, unique) ==
    IF companies = << >> THEN unique
    ELSE LET company == Head(companies)
             key == unique_key(company)
         IN  IF key # s_empty /\ key \notin seen_domains
             THEN dedup_loop(Tail(companies), seen_domains \cup {key},
                             Append(unique, company))
             ELSE dedup_loop(Tail(companies), seen_domains, unique)

_deduplicate_companies(companies) == dedup_loop(companies, {}, << >>)

-----------------------------------------------------------------------------
(* AIWashingDetector: the composite AI-washing score *)

\* Sub-scores are Python floats. They are kept exactly, as integers counting
\* 1/Unit of a point: halves, thirds, quarters and tenths are whole numbers.
Unit == 2 * 2 * 3 * 5

\* bool(x) of an optional string (website, name)
truthy(x) == x # None /\ x # s_empty

Min(a, b) == IF a <= b THEN a ELSE b
Max(a, b) == IF a >= b THEN a ELSE b

\* what a callee hands back: a value, or an exception that left it
Returned(v) == [ exc |-> FALSE, val |-> v ]
Raised == [ exc |-> TRUE, val |-> 0 ]

\* weights of lines 46, 50, 54, 58, in hundredths
BlogWeight      == 30
JobsWeight      == 25
GithubWeight    == 25
MarketingWeight == 20

\* lines 41-58: score accumulated over the four sub-scores, in 1/(100 * Unit)
weighted_score(blog, jobs, github, marketing) ==
    BlogWeight * blog + JobsWeight * jobs + GithubWeight * github
        + MarketingWeight * marketing

\* mutant: int(score) without the clamp of line 61
final_score_unclamped(blog, jobs, github, marketing) ==
    weighted_score(blog, jobs, github, marketing) \div (100 * Unit)

\* mutant: round(score) in place of int(score)
final_score_rounded(blog, jobs, github, marketing) ==
    Max(1, Min(10, (weighted_score(blog, jobs, github, marketing) + 50 * Unit)
                       \div (100 * Unit)))

\* line 61: max(1, min(10, int(score))); score >= 0, so int() is the floor
final_score(blog, jobs, github, marketing) ==
    Max(1, Min(10, weighted_score(blog, jobs, github, marketing) \div (100 * Unit)))

\* _score_blog_post_content (lines 148-186) on a page with the given numbers of
\* positive keywords, negative keywords and technical patterns, and a code
\* sample or not
_score_blog_post_content(post) ==
    LET positive  == Min(6 * Unit, post.positive * (Unit \div 2))
        negative  == post.negative * Unit
        technical == Min(3 * Unit, post.technical * (Unit \div 2))
        code      == IF post.code THEN Unit ELSE 0
    IN  Max(0, Min(10 * Unit, positive - negative + technical + code))

\* lines 81-93: the posts that were fetched and scored; a post whose page has
\* no content (kind "empty") or whose scoring raises (kind "raise") is skipped
RECURSIVE scored_posts(_)
scored_posts(posts) ==
    IF posts = << >> THEN << >>
    ELSE (IF Head(posts).kind \in { "empty", "raise" } THEN << >>
          ELSE << _score_blog_post_content(Head(posts)) >>)
             \o scored_posts(Tail(posts))

RECURSIVE Sum(_)
Sum(q) == IF q = << >> THEN 0 ELSE Head(q) + Sum(Tail(q))

\* _analyze_engineering_blog (lines 66-102). web.blog.find = "raise": an
\* exception inside the outer try; "none": no blog URL; otherwise web.blog.posts
\* are the blog pages found
_analyze_engineering_blog(company, web) ==
    IF ~truthy(company.website) THEN Returned(0)
    ELSE IF web.blog.find = "raise" THEN Returned(2 * Unit)
    ELSE IF web.blog.find = "none" THEN Returned(2 * Unit)
    ELSE LET scores == scored_posts(SubSeq(web.blog.posts, 1, Min(3, Len(web.blog.posts))))
         IN  IF Len(scores) > 0
             THEN Returned(Min(10 * Unit, Sum(scores) \div Len(scores)))
             ELSE Returned(2 * Unit)

\* job_title_weights (config/settings.py lines 175-184), in tenths; a title
\* matching no pattern adds nothing
TitleWeight(title) ==
    CASE title = "Machine Learning Engineer" -> 30
      [] title = "ML Engineer" -> 30
      [] title = "Data Scientist" -> 20
      [] title = "AI Engineer" -> 25
      [] title = "Research Scientist" -> 30
      [] title = "MLOps Engineer" -> 25
      [] title = "AI Product Manager" -> 15
      [] title = "Software Engineer" -> 5
      [] OTHER -> 0

\* the postings _search_job_postings has put together (lines 240-243) when it
\* reaches line 246, by title
mock_jobs == << "Software Engineer", "Product Manager" >>

\* _search_job_postings (lines 234-253): line 246 reads the name "company",
\* which is neither a parameter nor a global of the module, so every call
\* raises NameError after building mock_jobs
_search_job_postings(company_name) == Raised

RECURSIVE ml_positions(_)
ml_positions(job_data) ==
    IF job_data = << >> THEN 0
    ELSE TitleWeight(Head(job_data)) + ml_positions(Tail(job_data))

\* lines 201-227: the score of a non-empty list of postings
job_ratio_score(job_data) ==
    LET total_positions == Len(job_data)
        weighted == ml_positions(job_data)       \* tenths
    IN  IF weighted * 10 >= 30 * total_positions THEN 10 * Unit
        ELSE IF weighted * 10 >= 20 * total_positions THEN 8 * Unit
        ELSE IF weighted * 10 >= 15 * total_positions THEN 6 * Unit
        ELSE IF weighted * 10 >= 10 * total_positions THEN 4 * Unit
        ELSE 2 * Unit

\* _analyze_job_postings (lines 188-232)
_analyze_job_postings(company, web) ==
    IF ~truthy(company.name) THEN Returned(0)
    ELSE LET job_data == _search_job_postings(company.name)
         IN  IF job_data.exc THEN Returned(3 * Unit)
             ELSE IF job_data.val = << >> THEN Returned(3 * Unit)
             ELSE Returned(job_ratio_score(job_data.val))

\* _analyze_github_repos (lines 323-363). web.github.repos.kind is "no_token",
\* "http_error", "raise", or "list" with the counts of the organization's
\* repositories: all, those naming an ML indicator, those in Python
_analyze_github_repos(web) ==
    LET r == web.github.repos
    IN  IF r.kind = "no_token" THEN 5 * Unit
        ELSE IF r.kind = "http_error" THEN 3 * Unit
        ELSE IF r.kind = "raise" THEN 3 * Unit
        ELSE IF r.total > 0
             THEN Min(10 * Unit, ((2 * r.ml + r.python) * 10 * Unit) \div r.total)
             ELSE 3 * Unit

\* _analyze_github_presence (lines 255-278). web.github.org is "raise", "none"
\* or "found"
_analyze_github_presence(company, web) ==
    IF ~truthy(company.website) /\ ~truthy(company.name) THEN Returned(0)
    ELSE IF web.github.org = "raise" THEN Returned(2 * Unit)
    ELSE IF web.github.org = "none" THEN Returned(2 * Unit)
    ELSE Returned(Min(10 * Unit, _analyze_github_repos(web)))

\* mutant: the wrapper penalty does not look at the specific claims
marketing_score_wrapper_always(m) ==
    LET bonus   == Min(3 * Unit, m.specific * (Unit \div 2))
        penalty == Min(3 * Unit, m.vague * ((3 * Unit) \div 10))
        wrapper == IF m.chatgpt THEN 3 * Unit ELSE 0
    IN  Max(Unit, Min(10 * Unit, 5 * Unit + bonus - penalty - wrapper))

\* lines 393-406: the score from the counts of specific and vague claims
marketing_score(m) ==
    LET bonus   == Min(3 * Unit, m.specific * (Unit \div 2))
        penalty == Min(3 * Unit, m.vague * ((3 * Unit) \div 10))
        wrapper == IF m.chatgpt /\ m.specific = 0 THEN 3 * Unit ELSE 0
    IN  Max(Unit, Min(10 * Unit, 5 * Unit + bonus - penalty - wrapper))

\* mutant: the try/except of lines 373-409 is missing
_analyze_marketing_content_unguarded(company, web) ==
    IF ~truthy(company.website) /\ company.description = "" THEN Returned(5 * Unit)
    ELSE IF web.marketing.kind = "raise" THEN Raised
    ELSE Returned(marketing_score(web.marketing))

\* _analyze_marketing_content (lines 365-411). web.marketing.kind is "raise", or
\* "content" with the counts found in description and page content
_analyze_marketing_content(company, web) ==
    IF ~truthy(company.website) /\ company.description = "" THEN Returned(5 * Unit)
    ELSE IF web.marketing.kind = "raise" THEN Returned(5 * Unit)
    ELSE Returned(marketing_score(web.marketing))

\* calculate_ai_washing_score (lines 39-64); an exception leaving a
\* sub-analysis leaves the call. The sub-scores are kept beside the result.
calculate_ai_washing_score(company, web) ==
    LET blog      == _analyze_engineering_blog(company, web)
        jobs      == _analyze_job_postings(company, web)
        github    == _analyze_github_presence(company, web)
        marketing == _analyze_marketing_content(company, web)
    IN  IF blog.exc \/ jobs.exc \/ github.exc \/ marketing.exc
        THEN [ exc |-> TRUE, val |-> 0, blog_score |-> blog, jobs_score |-> jobs,
               github_score |-> github, marketing_score |-> marketing ]
        ELSE [ exc |-> FALSE,
               val |-> final_score(blog.val, jobs.val, github.val, marketing.val),
               blog_score |-> blog, jobs_score |-> jobs,
               github_score |-> github, marketing_score |-> marketing ]

-----------------------------------------------------------------------------
(* Engine state after StartupDiscoveryEngine.__init__ (lines 25-46) *)

fresh_stats ==
    [ companies_discovered |-> 0, companies_analyzed |-> 0,
      high_potential_targets |-> 0, ai_washing_filtered |-> 0,
      run_start_time |-> None, run_end_time |-> None ]

\* a collector that has not been called, one that returned a list, one that raised
NotCalled       == [ called |-> FALSE, raised |-> FALSE, companies |-> << >> ]
Returns(list)   == [ called |-> TRUE, raised |-> FALSE, companies |-> list ]
CollectorRaised == [ called |-> TRUE, raised |-> TRUE, companies |-> << >> ]

\* the phases of run_daily_discovery (lines 53-65)
StageOrder == << "discover", "deduplicate", "analyze", "store", "report" >>

NoError  == [ type |-> "none", stage |-> "none" ]
\* the report: top_targets, and statistics as the name of the dict it refers to
NoReport == [ built |-> FALSE, statistics |-> "unset", top_targets |-> << >> ]

\* main.py lines 42-43: db and engine constructed, nothing run yet
Constructed ==
    /\ pc = "idle"
    /\ db_pool = "None"
    /\ engine_pool = "None"
    /\ tables_created = FALSE
    /\ yc_out = NotCalled /\ gw_out = NotCalled /\ li_out = NotCalled
    /\ all_companies = << >>
    /\ unique_companies = << >>
    /\ analyzed_companies = << >>
    /\ idx = 0
    /\ fail_log = << >>
    /\ stats = fresh_stats
    /\ report = NoReport
    /\ error = NoError
    /\ result = "none"
    /\ discovery_runs = << >>
    /\ storage_failed = FALSE
    /\ stages = << >>

\* no discover command is running: the state the single-call specifications keep
RunParked == Constructed /\ issues = FALSE

-----------------------------------------------------------------------------
(* Single calls of _extract_domain on two websites built from the same parts *)

Protocols   == { s_empty, s_http, s_HTTPS }
WwwPrefixes == { s_empty, s_www, s_WWW }
Hosts       == { s_foo_com, s_Foo_com, s_bar_io }
Paths       == { s_empty, s_slash, s_about }

WebsiteParts == [ protocol : Protocols, www : WwwPrefixes, host : Hosts, path : Paths ]

\* the website string written from its parts
Website(p) == p.protocol \o p.www \o p.host \o p.path

InitDomain ==
    /\ RunParked
    /\ fn = "none"
    /\ arg \in WebsiteParts \X WebsiteParts
    /\ ret = None

CallExtractDomain ==
    /\ fn = "none"
    /\ fn' = "_extract_domain"
    /\ ret' = << _extract_domain(Website(arg[1])), _extract_domain(Website(arg[2])) >>
    /\ UNCHANGED << arg, runVars >>

NextDomain == CallExtractDomain

SpecDomain == InitDomain /\ [][NextDomain]_vars

\* C4: two websites that differ only in protocol prefix, path after the host,
\* a leading "www." and letter case (here: the same host up to case, any
\* protocol, any case of "www.", any path) get the same identity key from
\* _extract_domain.
C4_EquivalentWebsitesSameKey ==
    (fn = "_extract_domain" /\ lower(arg[1].host) = lower(arg[2].host))
        => ret[1] = ret[2]

-----------------------------------------------------------------------------
(* Single calls of _deduplicate_companies *)

MaxLen == 3

RECURSIVE SeqsUpTo(_, _)
SeqsUpTo(S, n) ==
    IF n = 0 THEN { << >> }
    ELSE LET shorter == SeqsUpTo(S, n - 1)
         IN  shorter \cup { Append(q, x) : q \in shorter, x \in S }

InitDedup ==
    /\ RunParked
    /\ fn = "none"
    /\ arg \in SeqsUpTo(DedupPool, MaxLen)
    /\ ret = None

CallDeduplicate ==
    /\ fn = "none"
    /\ fn' = "_deduplicate_companies"
    /\ ret' = _deduplicate_companies(arg)
    /\ UNCHANGED << arg, runVars >>

NextDedup == CallDeduplicate

SpecDedup == InitDedup /\ [][NextDedup]_vars

\* the identity key as the data model states it: the normalized website domain,
\* or the trimmed lower-cased name when the record has no website
HasWebsite(c) == c.website # None /\ c.website # s_empty

IdentityKey(c) ==
    IF HasWebsite(c) THEN _extract_domain(c.website) ELSE strip(lower(c.name))

FirstSeen(input, i) ==
    /\ IdentityKey(input[i]) # s_empty
    /\ \A j \in 1..(i - 1) : IdentityKey(input[j]) # IdentityKey(input[i])

RECURSIVE FirstSeenFrom(_, _)
FirstSeenFrom(input, i) ==
    IF i > Len(input) THEN << >>
    ELSE (IF FirstSeen(input, i) THEN << input[i] >> ELSE << >>)
             \o FirstSeenFrom(input, i + 1)

-----------------------------------------------------------------------------
(* Single evaluations of the final score over a grid of sub-scores *)

\* sub-scores are taken every 1/Resolution of a point
Resolution == 1

SubScores == { (k * Unit) \div Resolution : k \in 0..(10 * Resolution) }

InitScore ==
    /\ RunParked
    /\ fn = "none"
    /\ arg \in [ blog : SubScores, jobs : SubScores, github : SubScores,
                 marketing : SubScores ]
    /\ ret = None

CallFinalScore ==
    /\ fn = "none"
    /\ fn' = "final_score"
    /\ ret' = final_score(arg.blog, arg.jobs, arg.github, arg.marketing)
    /\ UNCHANGED << arg, runVars >>

NextScore == CallFinalScore

SpecScore == InitScore /\ [][NextScore]_vars

\* C9: for every combination of the four sub-scores, each in [0,10], the
\* AI-washing score is an integer in [1,10].
C9_ScoreInRange ==
    fn = "final_score" => ret \in 1..10

\* C9 witness: all four sub-scores are 0 and the score is 1 (the lower clamp).
C9_Witness ==
    /\ fn = "final_score"
    /\ arg = [ blog |-> 0, jobs |-> 0, github |-> 0, marketing |-> 0 ]
    /\ ret = 1

-----------------------------------------------------------------------------
(* Single calls of calculate_ai_washing_score *)

Page(positive, negative, technical, code) ==
    [ kind |-> "page", positive |-> positive, negative |-> negative,
      technical |-> technical, code |-> code ]
EmptyPage  == [ kind |-> "empty", positive |-> 0, negative |-> 0, technical |-> 0,
                code |-> FALSE ]
BrokenPage == [ kind |-> "raise", positive |-> 0, negative |-> 0, technical |-> 0,
                code |-> FALSE ]

BlogEnvs ==
    { [ find |-> "raise", posts |-> << >> ],
      [ find |-> "ok", posts |-> << EmptyPage, BrokenPage >> ],
      [ find |-> "ok", posts |-> << Page(3, 0, 1, TRUE), BrokenPage,
                                    Page(12, 1, 6, FALSE), Page(0, 0, 0, FALSE) >> ],
      [ find |-> "ok", posts |-> << Page(16, 0, 8, TRUE) >> ],
      [ find |-> "ok", posts |-> << Page(0, 3, 0, FALSE) >> ] }

Repos(kind, total, ml, python) ==
    [ kind |-> kind, total |-> total, ml |-> ml, python |-> python ]

GithubEnvs ==
    { [ org |-> "raise", repos |-> Repos("raise", 0, 0, 0) ],
      [ org |-> "none",  repos |-> Repos("raise", 0, 0, 0) ],
      [ org |-> "found", repos |-> Repos("no_token", 0, 0, 0) ],
      [ org |-> "found", repos |-> Repos("http_error", 0, 0, 0) ],
      [ org |-> "found", repos |-> Repos("raise", 0, 0, 0) ],
      [ org |-> "found", repos |-> Repos("list", 0, 0, 0) ],
      [ org |-> "found", repos |-> Repos("list", 2, 1, 1) ],
      [ org |-> "found", repos |-> Repos("list", 3, 0, 1) ] }

Marketing(kind, specific, vague, chatgpt) ==
    [ kind |-> kind, specific |-> specific, vague |-> vague, chatgpt |-> chatgpt ]

MarketingEnvs ==
    { Marketing("raise", 0, 0, FALSE),
      Marketing("content", 0, 0, FALSE),
      Marketing("content", 0, 2, TRUE),
      Marketing("content", 6, 1, TRUE),
      Marketing("content", 0, 6, TRUE) }

\* what the network answers for one company
Webs == [ blog : BlogEnvs, github : GithubEnvs, marketing : MarketingEnvs ]

DetectorCompanies ==
    { Company(n, w, "test", "seattle", d, "", 0) :
        n \in { s_Acme, s_empty }, w \in { s_http \o s_foo_com, None },
        d \in { "health", "" } }

InitDetector ==
    /\ RunParked
    /\ fn = "none"
    /\ arg \in [ company : DetectorCompanies, web : Webs ]
    /\ ret = None

CallCalculateScore ==
    /\ fn = "none"
    /\ fn' = "calculate_ai_washing_score"
    /\ ret' = calculate_ai_washing_score(arg.company, arg.web)
    /\ UNCHANGED << arg, runVars >>

NextDetector == CallCalculateScore

SpecDetector == InitDetector /\ [][NextDetector]_vars

\* C10: calculate_ai_washing_score never raises; a sub-analysis that fails
\* (blog: exception in the blog search; jobs: the posting search raising;
\* GitHub: exception in the organization search; marketing: exception while
\* reading the content) gives its default (2, 3, 2, 5), and a final score in
\* [1,10] is still returned.
C10_SubAnalysisFailureIsAbsorbed ==
    fn = "calculate_ai_washing_score" =>
        LET c == arg.company
            w == arg.web
        IN  /\ ~ret.exc
            /\ ~ret.blog_score.exc /\ ~ret.jobs_score.exc
            /\ ~ret.github_score.exc /\ ~ret.marketing_score.exc
            /\ (truthy(c.website) /\ w.blog.find = "raise")
                   => ret.blog_score.val = 2 * Unit
            /\ truthy(c.name) => ret.jobs_score.val = 3 * Unit
            /\ ((truthy(c.website) \/ truthy(c.name)) /\ w.github.org = "raise")
                   => ret.github_score.val = 2 * Unit
            /\ ((truthy(c.website) \/ c.description # "") /\ w.marketing.kind = "raise")
                   => ret.marketing_score.val = 5 * Unit
            /\ ret.val \in 1..10

\* C10 witness: the marketing analysis failed alone; the blog and GitHub
\* analyses still gave their own (non-default) scores and a final score came out.
C10_Witness ==
    /\ fn = "calculate_ai_washing_score"
    /\ truthy(arg.company.website)
    /\ arg.web.marketing.kind = "raise"
    /\ arg.web.blog.find = "ok"
    /\ arg.web.github.org = "found"
    /\ ret.marketing_score.val = 5 * Unit
    /\ ret.blog_score.val = 10 * Unit
    /\ ret.github_score.val = 10 * Unit
    /\ ret.val = 7

-----------------------------------------------------------------------------
(* GitHubAnalyzer.analyze_company_github, as _analyze_companies uses it *)

\* mutant: no base points for having an organization
_calculate_ml_score_no_base(github_data) ==
    IF ~github_data.organization_found THEN 0
    ELSE LET total == github_data.total_repositories
             ml    == IF total > 0
                      THEN Min(3 * Unit, (github_data.ml_related_repos * 10 * Unit) \div total)
                      ELSE 0
             py    == IF total > 0
                      THEN Min(2 * Unit, (github_data.python_repositories * 4 * Unit) \div total)
                      ELSE 0
             oss   == IF github_data.open_source_ml_projects > 0
                      THEN Min(2 * Unit, github_data.open_source_ml_projects * (Unit \div 2))
                      ELSE 0
             recent == IF github_data.recent_ml_activity THEN Unit ELSE 0
         IN  Min(10, Max(0, (ml + py + oss + recent) \div Unit))

\* _calculate_ml_score (github_analyzer.py lines 374-406); the ratios are exact
\* for the repository counts the model uses
_calculate_ml_score(github_data) ==
    IF ~github_data.organization_found THEN 0
    ELSE LET total == github_data.total_repositories
             base  == 2 * Unit
             ml    == IF total > 0
                      THEN Min(3 * Unit, (github_data.ml_related_repos * 10 * Unit) \div total)
                      ELSE 0
             py    == IF total > 0
                      THEN Min(2 * Unit, (github_data.python_repositories * 4 * Unit) \div total)
                      ELSE 0
             oss   == IF github_data.open_source_ml_projects > 0
                      THEN Min(2 * Unit, github_data.open_source_ml_projects * (Unit \div 2))
                      ELSE 0
             recent == IF github_data.recent_ml_activity THEN Unit ELSE 0
         IN  Min(10, Max(0, (base + ml + py + oss + recent) \div Unit))

\* lines 45-55: github_data before any organization is found
empty_github_data ==
    [ organization_found |-> FALSE, ml_contributions_score |-> 0,
      total_repositories |-> 0, python_repositories |-> 0, ml_related_repos |-> 0,
      open_source_ml_projects |-> 0, recent_ml_activity |-> FALSE ]

\* analyze_company_github (lines 43-79). web.footprint is what the GitHub API
\* answers: whether an organization is resolved, and its repository counts.
\* _find_github_organization (lines 81-102) has nothing to search with when
\* the company has neither website nor name
analyze_company_github(company, web) ==
    IF ~truthy(company.website) /\ ~truthy(company.name) THEN empty_github_data
    ELSE IF web.footprint.org # "found" THEN empty_github_data
    ELSE LET found == [ empty_github_data EXCEPT
                          !.organization_found = TRUE,
                          !.total_repositories = web.footprint.total,
                          !.python_repositories = web.footprint.python,
                          !.ml_related_repos = web.footprint.ml,
                          !.open_source_ml_projects = web.footprint.projects,
                          !.recent_ml_activity = web.footprint.recent ]
         IN  [ found EXCEPT !.ml_contributions_score = _calculate_ml_score(found) ]

-----------------------------------------------------------------------------
(* StartupDiscoveryEngine: scoring of one record *)

\* TargetCriteria (config/settings.py lines 66, 67, 74)
min_employees == 10
max_employees == 200
min_ai_washing_score == 6

\* config/settings.py line 88
funding_stages == { "Series A", "Series B", "Early Stage VC" }

\* a record as the analysis leaves it: the raw fields and the derived ones.
\* A derived key that has not been set is -1 (scores), "absent"
\* (healthcare_relevance), "" (analysis_error) or github_analysis.present = FALSE.
no_github_analysis == [ present |-> FALSE, data |-> empty_github_data ]

Unscored(company) ==
    [ name |-> company.name, website |-> company.website, source |-> company.source,
      location |-> company.location, description |-> company.description,
      funding_stage |-> company.funding_stage,
      employees_count |-> company.employees_count,
      ai_washing_score |-> -1, github_analysis |-> no_github_analysis,
      strategic_fit_score |-> -1, healthcare_relevance |-> "absent",
      analysis_error |-> "" ]

\* the raw fields of a record
Raw(c) ==
    Company(c.name, c.website, c.source, c.location, c.description,
            c.funding_stage, c.employees_count)

\* mutant: the employee-count bounds of line 190 taken as exclusive
_calculate_strategic_fit_exclusive(company) ==
    LET location_fit == IF company.location = "seattle" THEN 2 ELSE 0
        stage_fit    == IF company.funding_stage \in funding_stages THEN 2 ELSE 0
        size_fit     == IF min_employees < company.employees_count
                            /\ company.employees_count < max_employees
                        THEN 2 ELSE 0
        industry_fit == IF company.description = "health" THEN 2 ELSE 0
        ai_score     == IF company.ai_washing_score = -1 THEN 0
                        ELSE company.ai_washing_score
        depth        == IF ai_score >= 7 THEN 2 ELSE IF ai_score >= 5 THEN 1 ELSE 0
    IN  Min(location_fit + stage_fit + size_fit + industry_fit + depth, 10)

\* _calculate_strategic_fit (lines 175-206); company.get('ai_washing_score', 0)
\* is 0 for a record without the key
_calculate_strategic_fit(company) ==
    LET location_fit == IF company.location = "seattle" THEN 2 ELSE 0
        stage_fit    == IF company.funding_stage \in funding_stages THEN 2 ELSE 0
        size_fit     == IF min_employees <= company.employees_count
                            /\ company.employees_count <= max_employees
                        THEN 2 ELSE 0
        industry_fit == IF company.description = "health" THEN 2 ELSE 0
        ai_score     == IF company.ai_washing_score = -1 THEN 0
                        ELSE company.ai_washing_score
        depth        == IF ai_score >= 7 THEN 2 ELSE IF ai_score >= 5 THEN 1 ELSE 0
    IN  Min(location_fit + stage_fit + size_fit + industry_fit + depth, 10)

\* _assess_healthcare_relevance (lines 208-224)
_assess_healthcare_relevance(company) ==
    IF company.description = "health" THEN "True" ELSE "False"

\* mutant: every analysed record is counted as filtered
count_analyzed_all_filtered(st, ai_score, fit_score) ==
    [ st EXCEPT
        !.companies_analyzed = @ + 1,
        !.high_potential_targets =
            IF ai_score >= min_ai_washing_score /\ fit_score >= 7 THEN @ + 1 ELSE @,
        !.ai_washing_filtered = @ + 1 ]

\* lines 156-164: the counters after one record was analysed without exception
count_analyzed(st, ai_score, fit_score) ==
    [ st EXCEPT
        !.companies_analyzed = @ + 1,
        !.high_potential_targets =
            IF ai_score >= min_ai_washing_score /\ fit_score >= 7 THEN @ + 1 ELSE @,
        !.ai_washing_filtered =
            IF ai_score < min_ai_washing_score THEN @ + 1 ELSE @ ]

\* lines 166-171: the handler of one record's exception
analysis_failed(company, step) ==
    [ company EXCEPT !.ai_washing_score = 0, !.analysis_error = step ]

\* mutant: the record whose analysis raised is not kept (lines 169-171 lost)
analyze_one_dropping(company, web, fail, st) ==
    LET ai == calculate_ai_washing_score(company, web)
        c1 == [ Unscored(company) EXCEPT !.ai_washing_score = ai.val ]
        c2 == [ c1 EXCEPT !.github_analysis =
                  [ present |-> TRUE, data |-> analyze_company_github(company, web) ] ]
        c3 == [ c2 EXCEPT !.strategic_fit_score = _calculate_strategic_fit(c2) ]
        c4 == [ c3 EXCEPT !.healthcare_relevance = _assess_healthcare_relevance(c3) ]
    IN  IF ai.exc \/ fail # "none"
        THEN [ appended |-> << >>, stats |-> st ]
        ELSE [ appended |-> << c4 >>,
               stats |-> count_analyzed(st, c4.ai_washing_score, c4.strategic_fit_score) ]

\* mutant: the fit score is computed before the AI-washing score is stored
analyze_one_fit_first(company, web, fail, st) ==
    LET ai == calculate_ai_washing_score(company, web)
        c0 == [ Unscored(company) EXCEPT
                  !.strategic_fit_score = _calculate_strategic_fit(Unscored(company)) ]
        c1 == [ c0 EXCEPT !.ai_washing_score = ai.val ]
        c2 == [ c1 EXCEPT !.github_analysis =
                  [ present |-> TRUE, data |-> analyze_company_github(company, web) ] ]
        c4 == [ c2 EXCEPT !.healthcare_relevance = _assess_healthcare_relevance(c2) ]
    IN  IF ai.exc \/ fail # "none"
        THEN [ appended |-> << analysis_failed(c1, fail) >>, stats |-> st ]
        ELSE [ appended |-> << c4 >>,
               stats |-> count_analyzed(st, c4.ai_washing_score, c4.strategic_fit_score) ]

\* lines 139-171: one pass of the loop body of _analyze_companies on a record.
\* fail names the step that raises: "github" (analyze_company_github), "fit"
\* (_calculate_strategic_fit), "health" (_assess_healthcare_relevance), or
\* "none"; calculate_ai_washing_score raises when a sub-analysis lets an
\* exception out. Gives the records appended and the counters.
analyze_one(company, web, fail, st) ==
    LET ai == calculate_ai_washing_score(company, web)
        c1 == [ Unscored(company) EXCEPT !.ai_washing_score = ai.val ]
        c2 == [ c1 EXCEPT !.github_analysis =
                  [ present |-> TRUE, data |-> analyze_company_github(company, web) ] ]
        c3 == [ c2 EXCEPT !.strategic_fit_score = _calculate_strategic_fit(c2) ]
        c4 == [ c3 EXCEPT !.healthcare_relevance = _assess_healthcare_relevance(c3) ]
    IN  IF ai.exc
        THEN [ appended |-> << analysis_failed(Unscored(company), "ai") >>, stats |-> st ]
        ELSE IF fail = "github"
        THEN [ appended |-> << analysis_failed(c1, "github") >>, stats |-> st ]
        ELSE IF fail = "fit"
        THEN [ appended |-> << analysis_failed(c2, "fit") >>, stats |-> st ]
        ELSE IF fail = "health"
        THEN [ appended |-> << analysis_failed(c3, "health") >>, stats |-> st ]
        ELSE [ appended |-> << c4 >>,
               stats |-> count_analyzed(st, c4.ai_washing_score, c4.strategic_fit_score) ]

-----------------------------------------------------------------------------
(* DatabaseManager: the companies table and get_top_companies *)

\* a row of the companies table, with the columns the ranking and the upsert
\* read. A NULL score is -1, as for a key missing from a record. updated_at is
\* a logical time.
CompanyRow(name, website, fit, ai, updated_at) ==
    [ name |-> name, website |-> website, strategic_fit_score |-> fit,
      ai_washing_score |-> ai, updated_at |-> updated_at ]

\* one key of ORDER BY ... DESC NULLS LAST (database.py lines 302-303): a sorts
\* before b on this key
DescNullsLast(a, b) == a # -1 /\ (b = -1 \/ a > b)

\* mutant: the second key ascending
SortsBeforeAIAscending(a, b) ==
    IF a.strategic_fit_score # b.strategic_fit_score
    THEN DescNullsLast(a.strategic_fit_score, b.strategic_fit_score)
    ELSE IF a.ai_washing_score # b.ai_washing_score
    THEN DescNullsLast(b.ai_washing_score, a.ai_washing_score)
    ELSE a.updated_at > b.updated_at

\* ORDER BY c.strategic_fit_score DESC NULLS LAST, c.ai_washing_score DESC
\* NULLS LAST, c.updated_at DESC (lines 301-304): row a sorts before row b
SortsBefore(a, b) ==
    IF a.strategic_fit_score # b.strategic_fit_score
    THEN DescNullsLast(a.strategic_fit_score, b.strategic_fit_score)
    ELSE IF a.ai_washing_score # b.ai_washing_score
    THEN DescNullsLast(a.ai_washing_score, b.ai_washing_score)
    ELSE a.updated_at > b.updated_at

\* row placed into an ordered list, behind the rows it does not sort before
RECURSIVE InsertRow(_, _)
InsertRow(sorted, row) ==
    IF sorted = << >> THEN << row >>
    ELSE IF SortsBefore(row, Head(sorted)) THEN << row >> \o sorted
    ELSE << Head(sorted) >> \o InsertRow(Tail(sorted), row)

\* the rows in the order of the ORDER BY clause; rows equal on all three keys
\* stay in the order the table scan gives them
RECURSIVE OrderBy(_)
OrderBy(rows) ==
    IF rows = << >> THEN << >>
    ELSE InsertRow(OrderBy(SubSeq(rows, 1, Len(rows) - 1)), rows[Len(rows)])

\* get_top_companies (database.py lines 287-309) without healthcare_only, on
\* the joined rows in the order the scan gives them: ORDER BY, then LIMIT $1
get_top_companies(rows, limit) ==
    LET ordered == OrderBy(rows)
    IN  SubSeq(ordered, 1, Min(limit, Len(ordered)))

\* the first row the upsert's SELECT matches (lines 151-154): same name, or
\* same website (a NULL website matches nothing); 0 when there is none
ExistingRow(table, company) ==
    LET hits == { k \in 1..Len(table) :
                    \/ table[k].name = company.name
                    \/ company.website # None /\ table[k].website = company.website }
    IN  IF hits = { } THEN 0 ELSE CHOOSE k \in hits : \A h \in hits : k <= h

\* COALESCE($n, column)
Coalesce(new, old) == IF new # -1 THEN new ELSE old

\* upsert_company (lines 147-171) at logical time now: _update_company (lines
\* 202-225) on the matched row, _insert_company (lines 173-200) otherwise
upsert_company(table, company, now) ==
    LET k == ExistingRow(table, company)
    IN  IF k = 0
        THEN Append(table, CompanyRow(company.name, company.website,
                                      company.strategic_fit_score,
                                      company.ai_washing_score, now))
        ELSE [ table EXCEPT ![k] =
                 [ @ EXCEPT
                     !.strategic_fit_score = Coalesce(company.strategic_fit_score, @),
                     !.ai_washing_score = Coalesce(company.ai_washing_score, @),
                     !.updated_at = now ] ]

\* _store_results (discovery_engine.py lines 245-252) on an empty table
RECURSIVE stored_rows(_)
stored_rows(companies) ==
    IF companies = << >> THEN << >>
    ELSE upsert_company(stored_rows(SubSeq(companies, 1, Len(companies) - 1)),
                        companies[Len(companies)], Len(companies))

-----------------------------------------------------------------------------
(* The discover command: run_discovery (main.py) around run_daily_discovery *)

\* what the collectors may answer
\* records as the collectors build them (yc_scraper.py lines 122-132,
\* geekwire_scraper.py lines 209-218, linkedin_scraper.py lines 160-169): the
\* name is not empty, the website is absent or an http(s) URL, LinkedIn
\* records have no website, and no collector sets funding_stage or
\* employees_count
yc_acme == Company(s_Acme, s_http \o s_foo_com, "y_combinator", "seattle", "health", "", 0)
yc_foo  == Company(s_Foo, None, "y_combinator", "seattle", "games", "", 0)
gw_acme == Company(s_Acme, s_http \o s_www \o s_foo_com \o s_about, "geekwire",
                   "seattle", "games", "", 0)
gw_cee  == Company(s_Cee, s_http \o s_WWW \o s_bar_io \o s_slash, "geekwire",
                   "seattle", "health", "", 0)
li_foo  == Company(s_Foo, None, "linkedin_jobs", "austin", "games", "", 0)
li_cee  == Company(s_Cee, None, "linkedin_jobs", "seattle", "health", "", 0)

YCOutcomes == { CollectorRaised, Returns(<< >>), Returns(<< yc_acme, yc_foo >>) }
GWOutcomes == { CollectorRaised, Returns(<< gw_acme >>), Returns(<< gw_cee, gw_acme >>) }
LIOutcomes == { CollectorRaised, Returns(<< li_foo >>), Returns(<< li_foo, li_cee >>) }

Footprint(org, total, ml, python, projects, recent) ==
    [ org |-> org, total |-> total, ml |-> ml, python |-> python,
      projects |-> projects, recent |-> recent ]

\* what the network answers while one record is analysed
web_strong ==
    [ blog      |-> [ find |-> "ok", posts |-> << Page(16, 0, 8, TRUE) >> ],
      github    |-> [ org |-> "found", repos |-> Repos("list", 2, 1, 1) ],
      marketing |-> Marketing("content", 6, 1, TRUE),
      footprint |-> Footprint("found", 2, 1, 1, 1, TRUE) ]

web_weak ==
    [ blog      |-> [ find |-> "ok", posts |-> << Page(3, 0, 1, TRUE), EmptyPage >> ],
      github    |-> [ org |-> "found", repos |-> Repos("list", 3, 0, 1) ],
      marketing |-> Marketing("content", 0, 2, TRUE),
      footprint |-> Footprint("found", 3, 0, 1, 0, FALSE) ]

web_down ==
    [ blog      |-> [ find |-> "raise", posts |-> << >> ],
      github    |-> [ org |-> "raise", repos |-> Repos("raise", 0, 0, 0) ],
      marketing |-> Marketing("raise", 0, 0, FALSE),
      footprint |-> Footprint("none", 0, 0, 0, 0, FALSE) ]

PipelineWebs == { web_strong, web_weak, web_down }

FailPoints == { "none", "github", "fit", "health" }

Init ==
    /\ Constructed
    /\ issues \in BOOLEAN
    /\ fn = "none" /\ arg = None /\ ret = None

\* mutant: the issues found by validate() are logged but the run goes on
ValidateConfigIgnoringIssues ==
    /\ pc = "idle"
    /\ pc' = "initialize"
    /\ UNCHANGED << issues, db_pool, engine_pool, tables_created, yc_out, gw_out, li_out,
                    all_companies, unique_companies, analyzed_companies, idx, fail_log,
                    stats, report, error, result, discovery_runs, storage_failed, stages,
                    callVars >>

\* main.py lines 32-43: validate, then construct db and engine
ValidateConfig ==
    /\ pc = "idle"
    /\ IF issues
       THEN pc' = "exit" /\ result' = "False"
       ELSE pc' = "initialize" /\ UNCHANGED result
    /\ UNCHANGED << issues, db_pool, engine_pool, tables_created, yc_out, gw_out, li_out,
                    all_companies, unique_companies, analyzed_companies, idx, fail_log,
                    stats, report, error, discovery_runs, storage_failed, stages,
                    callVars >>

\* main.py line 46, database.py lines 23-43: create_pool, then _create_tables;
\* either may raise, and the pool stays assigned when only the second does
Initialize ==
    /\ pc = "initialize"
    /\ \E pool_ok \in BOOLEAN, tables_ok \in BOOLEAN :
          /\ db_pool' = IF pool_ok THEN "open" ELSE "None"
          /\ tables_created' = (pool_ok /\ tables_ok)
          /\ IF pool_ok /\ tables_ok
             THEN pc' = "discover_yc" /\ UNCHANGED << error, storage_failed >>
             ELSE /\ pc' = "except"
                  /\ error' = [ type |-> "StorageError", stage |-> "initialize" ]
                  /\ storage_failed' = TRUE
    /\ UNCHANGED << issues, engine_pool, yc_out, gw_out, li_out, all_companies,
                    unique_companies, analyzed_companies, idx, fail_log, stats, report,
                    result, discovery_runs, stages, callVars >>

\* mutant: a collector's failure discards what the earlier collectors gave
extend_from_or_reset(companies, outcome) ==
    IF outcome.raised THEN << >> ELSE companies \o outcome.companies

\* one try block of _discover_companies (lines 81-87, 90-96, 99-105): the list
\* is extended by what the collector returned, and left alone if it raised
extend_from(companies, outcome) ==
    IF outcome.raised THEN companies ELSE companies \o outcome.companies

\* discovery_engine.py lines 50-51 and 78-87
DiscoverYC ==
    /\ pc = "discover_yc"
    /\ \E outcome \in YCOutcomes :
          /\ yc_out' = outcome
          /\ all_companies' = extend_from(<< >>, outcome)
    /\ stats' = [ stats EXCEPT !.run_start_time = << "now" >> ]
    /\ stages' = Append(stages, "discover")
    /\ pc' = "discover_gw"
    /\ UNCHANGED << issues, db_pool, engine_pool, tables_created, gw_out, li_out,
                    unique_companies, analyzed_companies, idx, fail_log, report, error,
                    result, discovery_runs, storage_failed, callVars >>

\* lines 90-96
DiscoverGeekWire ==
    /\ pc = "discover_gw"
    /\ \E outcome \in GWOutcomes :
          /\ gw_out' = outcome
          /\ all_companies' = extend_from(all_companies, outcome)
    /\ pc' = "discover_li"
    /\ UNCHANGED << issues, db_pool, engine_pool, tables_created, yc_out, li_out,
                    unique_companies, analyzed_companies, idx, fail_log, stats, report,
                    error, result, discovery_runs, storage_failed, stages, callVars >>

\* lines 99-108
DiscoverLinkedIn ==
    /\ pc = "discover_li"
    /\ \E outcome \in LIOutcomes :
          /\ li_out' = outcome
          /\ all_companies' = extend_from(all_companies, outcome)
    /\ stats' = [ stats EXCEPT !.companies_discovered = Len(all_companies') ]
    /\ pc' = "deduplicate"
    /\ UNCHANGED << issues, db_pool, engine_pool, tables_created, yc_out, gw_out,
                    unique_companies, analyzed_companies, idx, fail_log, report, error,
                    result, discovery_runs, storage_failed, stages, callVars >>

\* line 58: _deduplicate_companies(companies)
Deduplicate ==
    /\ pc = "deduplicate"
    /\ unique_companies' = _deduplicate_companies(all_companies)
    /\ stages' = Append(stages, "deduplicate")
    /\ pc' = "analyze_start"
    /\ UNCHANGED << issues, db_pool, engine_pool, tables_created, yc_out, gw_out, li_out,
                    all_companies, analyzed_companies, idx, fail_log, stats, report,
                    error, result, discovery_runs, storage_failed, callVars >>

\* lines 61, 132-136: _analyze_companies starts with an empty result list
AnalyzeStart ==
    /\ pc = "analyze_start"
    /\ analyzed_companies' = << >>
    /\ idx' = 1
    /\ stages' = Append(stages, "analyze")
    /\ pc' = "analyze_loop"
    /\ UNCHANGED << issues, db_pool, engine_pool, tables_created, yc_out, gw_out, li_out,
                    all_companies, unique_companies, fail_log, stats, report, error,
                    result, discovery_runs, storage_failed, callVars >>

\* lines 138-171: the loop body on the next record
AnalyzeCompany ==
    /\ pc = "analyze_loop"
    /\ idx <= Len(unique_companies)
    /\ \E web \in PipelineWebs, fail \in FailPoints :
          LET out == analyze_one(unique_companies[idx], web, fail, stats)
          IN  /\ analyzed_companies' = analyzed_companies \o out.appended
              /\ stats' = out.stats
              /\ fail_log' = Append(fail_log, fail)
    /\ idx' = idx + 1
    /\ UNCHANGED << pc, issues, db_pool, engine_pool, tables_created, yc_out, gw_out,
                    li_out, all_companies, unique_companies, report, error, result,
                    discovery_runs, storage_failed, stages, callVars >>

\* line 173: the loop is over, analyzed_companies is returned
AnalyzeReturn ==
    /\ pc = "analyze_loop"
    /\ idx > Len(unique_companies)
    /\ pc' = "store"
    /\ UNCHANGED << issues, db_pool, engine_pool, tables_created, yc_out, gw_out, li_out,
                    all_companies, unique_companies, analyzed_companies, idx, fail_log,
                    stats, report, error, result, discovery_runs, storage_failed, stages,
                    callVars >>

\* mutant: the exception of upsert_company is swallowed and the run goes on
StoreResultsSwallowing ==
    /\ pc = "store"
    /\ stages' = Append(stages, "store")
    /\ IF analyzed_companies # << >> /\ engine_pool = "None"
       THEN /\ error' = [ type |-> "AttributeError", stage |-> "store" ]
            /\ storage_failed' = TRUE
       ELSE UNCHANGED << error, storage_failed >>
    /\ pc' = "report"
    /\ UNCHANGED << issues, db_pool, engine_pool, tables_created, yc_out, gw_out, li_out,
                    all_companies, unique_companies, analyzed_companies, idx, fail_log,
                    stats, report, result, discovery_runs, callVars >>

\* lines 64, 245-252, database.py line 149: upsert_company on the engine's own
\* DatabaseManager, once per record. self.pool.acquire() raises AttributeError
\* while the pool is None; the exception leaves run_daily_discovery (lines
\* 72-74) and reaches the handler of run_discovery
StoreResults ==
    /\ pc = "store"
    /\ stages' = Append(stages, "store")
    /\ IF analyzed_companies # << >> /\ engine_pool = "None"
       THEN /\ error' = [ type |-> "AttributeError", stage |-> "store" ]
            /\ storage_failed' = TRUE
            /\ pc' = "except"
       ELSE /\ pc' = "report"
            /\ UNCHANGED << error, storage_failed >>
    /\ UNCHANGED << issues, db_pool, engine_pool, tables_created, yc_out, gw_out, li_out,
                    all_companies, unique_companies, analyzed_companies, idx, fail_log,
                    stats, report, result, discovery_runs, callVars >>

\* lines 65 and 254-269. Line 256 subtracts run_start_time from run_end_time,
\* which is assigned only at line 67, after this call: None - datetime raises
\* TypeError. Past that line get_top_companies is asked of the engine's own
\* DatabaseManager and the report is built; its 'statistics' entry is
\* self.stats itself (line 264), not a copy.
GenerateReport ==
    /\ pc = "report"
    /\ stages' = Append(stages, "report")
    /\ IF stats.run_end_time = None
       THEN /\ error' = [ type |-> "TypeError", stage |-> "report" ]
            /\ pc' = "except"
            /\ UNCHANGED << report, storage_failed >>
       ELSE IF engine_pool = "None"
       THEN /\ error' = [ type |-> "AttributeError", stage |-> "report" ]
            /\ storage_failed' = TRUE
            /\ pc' = "except"
            /\ UNCHANGED report
       ELSE /\ report' = [ built |-> TRUE, statistics |-> "self.stats",
                            top_targets |->
                                get_top_companies(stored_rows(analyzed_companies), 10) ]
            /\ pc' = "run_end"
            /\ UNCHANGED << error, storage_failed >>
    /\ UNCHANGED << issues, db_pool, engine_pool, tables_created, yc_out, gw_out, li_out,
                    all_companies, unique_companies, analyzed_companies, idx, fail_log,
                    stats, result, discovery_runs, callVars >>

\* discovery_engine.py lines 67-70, then main.py lines 51-61: run_end_time is
\* assigned, the report is returned, saved and recorded as a successful run
FinishRun ==
    /\ pc = "run_end"
    /\ stats' = [ stats EXCEPT !.run_end_time = << "now" >> ]
    /\ discovery_runs' = Append(discovery_runs, [ success |-> TRUE, error |-> NoError ])
    /\ result' = "True"
    /\ pc' = "finally"
    /\ UNCHANGED << issues, db_pool, engine_pool, tables_created, yc_out, gw_out, li_out,
                    all_companies, unique_companies, analyzed_companies, idx, fail_log,
                    report, error, storage_failed, stages, callVars >>

\* main.py lines 63-67: the handler writes a failure row when db.pool is set,
\* then returns False. record_discovery_run is a storage operation: when it
\* raises, the exception leaves the handler and run_discovery.
HandleFailure ==
    /\ pc = "except"
    /\ IF db_pool = "None"
       THEN /\ result' = "False"
            /\ UNCHANGED << discovery_runs, storage_failed >>
       ELSE \E write_ok \in BOOLEAN :
               IF write_ok
               THEN /\ discovery_runs' =
                           Append(discovery_runs, [ success |-> FALSE, error |-> error ])
                    /\ result' = "False"
                    /\ UNCHANGED storage_failed
               ELSE /\ result' = "raised"
                    /\ storage_failed' = TRUE
                    /\ UNCHANGED discovery_runs
    /\ pc' = "finally"
    /\ UNCHANGED << issues, db_pool, engine_pool, tables_created, yc_out, gw_out, li_out,
                    all_companies, unique_companies, analyzed_companies, idx, fail_log,
                    stats, report, error, stages, callVars >>

\* main.py lines 69-70 and database.py lines 45-49: db.close()
Finally ==
    /\ pc = "finally"
    /\ db_pool' = IF db_pool = "None" THEN "None" ELSE "closed"
    /\ pc' = "exit"
    /\ UNCHANGED << issues, engine_pool, tables_created, yc_out, gw_out, li_out,
                    all_companies, unique_companies, analyzed_companies, idx, fail_log,
                    stats, report, error, result, discovery_runs, storage_failed, stages,
                    callVars >>

Next ==
    \/ ValidateConfig
    \/ Initialize
    \/ DiscoverYC
    \/ DiscoverGeekWire
    \/ DiscoverLinkedIn
    \/ Deduplicate
    \/ AnalyzeStart
    \/ AnalyzeCompany
    \/ AnalyzeReturn
    \/ StoreResults
    \/ GenerateReport
    \/ HandleFailure
    \/ Finally

Spec == Init /\ [][Next]_vars

-----------------------------------------------------------------------------
(* Properties of the discover command *)

\* what a collector's outcome adds to the aggregate list
Contribution(outcome) == IF outcome.raised THEN << >> ELSE outcome.companies

Started(stage) == \E k \in 1..Len(stages) : stages[k] = stage

\* C1: whichever collectors raise, _discover_companies returns the concatenation,
\* in collector order and emission order, of the complete outputs of the
\* collectors that did not raise, and companies_discovered is its length, the
\* sum of the sizes of the successful outputs.
C1_FailedCollectorsContributeNothing ==
    li_out.called =>
        /\ all_companies =
               Contribution(yc_out) \o Contribution(gw_out) \o Contribution(li_out)
        /\ stats.companies_discovered = Len(all_companies)
        /\ stats.companies_discovered =
               Len(Contribution(yc_out)) + Len(Contribution(gw_out))
                 + Len(Contribution(li_out))
        /\ error = NoError \/ Started("store")

C1_Witness ==
    /\ pc = "deduplicate"
    /\ yc_out = Returns(<< yc_acme, yc_foo >>)
    /\ gw_out = CollectorRaised
    /\ li_out = Returns(<< li_foo, li_cee >>)
    /\ all_companies = << yc_acme, yc_foo, li_foo, li_cee >>
    /\ stats.companies_discovered = 4

\* C5: in _analyze_companies every input record appears exactly once in the
\* output, in input order; a record whose analysis raised carries
\* analysis_error and ai_washing_score 0; a record whose analysis did not raise
\* is fully analysed, also when an earlier record's analysis raised; and the
\* call returns a list as long as its input.
C5_FailedRecordsKeptAndMarked ==
    /\ Len(analyzed_companies) = Len(fail_log)
    /\ pc = "analyze_loop" => Len(analyzed_companies) = idx - 1
    /\ Started("store") => Len(analyzed_companies) = Len(unique_companies)
    /\ \A i \in 1..Len(analyzed_companies) :
          /\ i <= Len(unique_companies)
          /\ Raw(analyzed_companies[i]) = unique_companies[i]
          /\ fail_log[i] # "none" =>
                /\ analyzed_companies[i].analysis_error # ""
                /\ analyzed_companies[i].ai_washing_score = 0
          /\ fail_log[i] = "none" =>
                /\ analyzed_companies[i].analysis_error = ""
                /\ analyzed_companies[i].ai_washing_score \in 1..10
                /\ analyzed_companies[i].github_analysis.present
                /\ analyzed_companies[i].strategic_fit_score >= 0
                /\ analyzed_companies[i].healthcare_relevance # "absent"

C5_Witness ==
    /\ pc = "store"
    /\ Len(unique_companies) = 3
    /\ fail_log = << "fit", "none", "health" >>
    /\ analyzed_companies[1].analysis_error = "fit"
    /\ analyzed_companies[1].ai_washing_score = 0
    /\ analyzed_companies[2].analysis_error = ""
    /\ analyzed_companies[3].ai_washing_score = 0

\* C6: a run whose storage is reachable (the pool was opened, the tables were
\* created and every write asked of the pool succeeded) ends having returned
\* a report to the caller, whatever the collectors and the analyses did.
C6_ReachableStorageRunReturnsReport ==
    (pc = "exit" /\ ~issues /\ tables_created /\ result # "raised") =>
        (report.built /\ result = "True")

\* the stages started so far are a prefix of StageOrder, each begun on the
\* complete result of the one before, and the last one is the one that failed
C7_StagesInOrder ==
    /\ Len(stages) <= Len(StageOrder)
    /\ \A k \in 1..Len(stages) : stages[k] = StageOrder[k]
    /\ Started("deduplicate") =>
          yc_out.called /\ gw_out.called /\ li_out.called
    /\ Started("analyze") => unique_companies = _deduplicate_companies(all_companies)
    /\ Started("store") =>
          idx = Len(unique_companies) + 1 /\ Len(analyzed_companies) = Len(unique_companies)
    /\ Started("report") => (analyzed_companies # << >> => engine_pool # "None")
    /\ error # NoError =>
          IF error.stage = "initialize" THEN stages = << >>
          ELSE stages # << >> /\ stages[Len(stages)] = error.stage

\* once an error is pending, no step starts a stage
C7_NoStageAfterFailure == [][error # NoError => stages' = stages]_vars

\* C7: in every run the stages execute strictly in the order discover,
\* deduplicate, analyze, store, report, each at most once and each only after
\* the previous one has finished over all of its records, and after a stage
\* has failed with an unrecoverable error no later stage runs.
C7_StrictStageOrder == []C7_StagesInOrder /\ C7_NoStageAfterFailure

C7_Witness ==
    /\ pc = "exit"
    /\ error = [ type |-> "AttributeError", stage |-> "store" ]
    /\ stages = << "discover", "deduplicate", "analyze", "store" >>
    /\ ~report.built

FailureRowWritten ==
    \E k \in 1..Len(discovery_runs) :
        ~discovery_runs[k].success /\ discovery_runs[k].error # NoError

\* C8: when a storage operation has failed during a run, no report is
\* produced, run_discovery returns False, and a failure row is written
\* whenever the pool of run_discovery's DatabaseManager is set.
C8_StorageFailureReportedAsFalse ==
    (pc = "exit" /\ storage_failed) =>
        /\ ~report.built
        /\ result = "False"
        /\ db_pool # "None" => FailureRowWritten

-----------------------------------------------------------------------------
(* The final score against rounding to the nearest integer *)

Abs(x) == IF x < 0 THEN -x ELSE x

\* n is an integer nearest to the weighted sum w, given in 1/(100 * Unit)
\* (either neighbour on a tie)
Nearest(n, w) == 2 * Abs(n * 100 * Unit - w) <= 100 * Unit

\* C11: the AI-washing score is the weighted sum 0.30*blog + 0.25*jobs +
\* 0.25*github + 0.20*marketing rounded to the nearest integer and then
\* clamped to [1,10].
C11_ScoreIsRoundedWeightedSum ==
    fn = "final_score" =>
        \E n \in 0..10 :
            /\ Nearest(n, weighted_score(arg.blog, arg.jobs, arg.github, arg.marketing))
            /\ ret = Max(1, Min(10, n))

-----------------------------------------------------------------------------
(* Order of the two scores within one record's analysis *)

\* C12: for every record processed by _analyze_companies the AI-washing score
\* is stored on the record before its fit score is computed: a record never
\* has a fit score without an AI-washing score, and the fit score of a fully
\* analysed record is the one its own AI-washing score gives (for a record that
\* failed after fit scoring, the one some computed score in 1..10 gives).
C12_FitUsesSamePassAIScore ==
    \A i \in 1..Len(analyzed_companies) :
        LET r == analyzed_companies[i]
        IN  /\ r.strategic_fit_score # -1 => r.ai_washing_score # -1
            /\ fail_log[i] = "none" =>
                  r.strategic_fit_score = _calculate_strategic_fit(r)
            /\ fail_log[i] = "health" =>
                  \E a \in 1..10 :
                      r.strategic_fit_score =
                          _calculate_strategic_fit([ r EXCEPT !.ai_washing_score = a ])
            /\ fail_log[i] \in { "github", "fit" } => r.strategic_fit_score = -1

\* C12 witness: a record scored 7 whose fit score holds the 2 points of the
\* AI criterion besides location and industry.
C12_Witness ==
    /\ pc = "store"
    /\ Len(analyzed_companies) >= 1
    /\ fail_log[1] = "none"
    /\ Raw(analyzed_companies[1]) = yc_acme
    /\ analyzed_companies[1].ai_washing_score = 7
    /\ analyzed_companies[1].strategic_fit_score = 6

-----------------------------------------------------------------------------
(* Single calls of _calculate_strategic_fit *)

EmployeeCounts == { 0, 9, 10, 50, 200, 201 }
FundingStages  == { "", "Seed", "Series A", "Early Stage VC" }
\* -1: the record has no ai_washing_score key
AIScores       == { -1 } \cup (0..10)

FitRecords ==
    { [ Unscored(Company(s_Acme, None, "test", l, d, f, e)) EXCEPT !.ai_washing_score = a ] :
        l \in { "seattle", "austin" }, d \in { "health", "games" },
        f \in FundingStages, e \in EmployeeCounts, a \in AIScores }

InitFit ==
    /\ RunParked
    /\ fn = "none"
    /\ arg \in FitRecords
    /\ ret = None

CallStrategicFit ==
    /\ fn = "none"
    /\ fn' = "_calculate_strategic_fit"
    /\ ret' = _calculate_strategic_fit(arg)
    /\ UNCHANGED << arg, runVars >>

NextFit == CallStrategicFit

SpecFit == InitFit /\ [][NextFit]_vars

Points(met) == IF met THEN 2 ELSE 0

C13_WitnessMaximum ==
    /\ fn = "_calculate_strategic_fit"
    /\ arg.employees_count = 200
    /\ ret = 10

-----------------------------------------------------------------------------
(* Records whose analysis raised, in the report *)

RowsNamed(rows, name) == { k \in 1..Len(rows) : rows[k].name = name }

\* C14: when a run with reachable storage has ended, the report it returned
\* holds every company whose analysis raised exactly once, with AI-washing
\* score 0 (the row of the report is the stored record, error included).
C14_FailedCompanyOnceInReport ==
    (pc = "exit" /\ ~issues /\ tables_created /\ result # "raised") =>
        \A i \in 1..Len(analyzed_companies) :
            fail_log[i] # "none" =>
                /\ report.built
                /\ Cardinality(RowsNamed(report.top_targets,
                                         analyzed_companies[i].name)) = 1
                /\ \A k \in RowsNamed(report.top_targets, analyzed_companies[i].name) :
                       report.top_targets[k].ai_washing_score = 0

-----------------------------------------------------------------------------
(* Repeated calls of run_daily_discovery on one engine *)

\* the counters are bounded by allowing a further call only below this value
MaxAnalyzed == 2

EngineFailPoints == { "none", "fit" }

\* _analyze_companies (lines 132-173) over the whole list: fails[i] is where
\* the analysis of record i raises
\* the loop body applied to the result of the records before
analyze_next(front, company, web, fail) ==
    LET last == analyze_one(company, web, fail, front.stats)
    IN  [ analyzed |-> front.analyzed \o last.appended, stats |-> last.stats ]

RECURSIVE analyze_all(_, _, _, _)
analyze_all(companies, web, fails, st) ==
    IF companies = << >> THEN [ analyzed |-> << >>, stats |-> st ]
    ELSE LET n == Len(companies)
         IN  CHOOSE out \in { analyze_next(front, companies[n], web, fails[n]) :
                                front \in { analyze_all(SubSeq(companies, 1, n - 1),
                                                        web, fails, st) } } : TRUE

InitEngine ==
    /\ RunParked
    /\ fn = "none" /\ arg = None /\ ret = None

\* one call of run_daily_discovery (lines 48-74) on the engine, from its first
\* line to the exception leaving it: _store_results raises on the engine's
\* uninitialized pool when there is a record, _generate_discovery_report
\* raises at line 256 otherwise. self.stats is the dict made in __init__
\* (lines 38-45); the call assigns run_start_time and companies_discovered and
\* adds to the other counters.
RunDailyDiscovery ==
    /\ pc \in { "idle", "except" }
    /\ stats.companies_analyzed < MaxAnalyzed
    /\ \E yc \in YCOutcomes, gw \in GWOutcomes, li \in LIOutcomes :
       \E companies \in { extend_from(extend_from(extend_from(<< >>, yc), gw), li) } :
       \E unique \in { _deduplicate_companies(companies) } :
       \E web \in PipelineWebs, fails \in [ 1..Len(unique) -> EngineFailPoints ] :
       \E out \in { analyze_all(unique, web, fails,
                                [ stats EXCEPT !.run_start_time = << "now" >>,
                                               !.companies_discovered = Len(companies) ]) } :
          /\ yc_out' = yc /\ gw_out' = gw /\ li_out' = li
          /\ all_companies' = companies
          /\ unique_companies' = unique
          /\ analyzed_companies' = out.analyzed
          /\ idx' = Len(unique) + 1
          /\ fail_log' = [ i \in 1..Len(unique) |-> fails[i] ]
          /\ stats' = out.stats
          /\ IF out.analyzed # << >>
             THEN /\ error' = [ type |-> "AttributeError", stage |-> "store" ]
                  /\ stages' = SubSeq(StageOrder, 1, 4)
                  /\ storage_failed' = TRUE
             ELSE /\ error' = [ type |-> "TypeError", stage |-> "report" ]
                  /\ stages' = StageOrder
                  /\ storage_failed' = FALSE
    /\ pc' = "except"
    /\ UNCHANGED << issues, db_pool, engine_pool, tables_created, report, result,
                    discovery_runs, callVars >>

NextEngine == RunDailyDiscovery

SpecEngine == InitEngine /\ [][NextEngine]_vars

AnalyzedOK == { i \in 1..Len(fail_log) : fail_log[i] = "none" }

\* C15: at the end of every call of run_daily_discovery the four counters
\* count only the records of that call, also on an engine that has run before.
C15_StatsCountThisRunOnly ==
    pc = "except" =>
        /\ stats.companies_discovered = Len(all_companies)
        /\ stats.companies_analyzed = Cardinality(AnalyzedOK)
        /\ stats.ai_washing_filtered =
               Cardinality({ i \in AnalyzedOK :
                               analyzed_companies[i].ai_washing_score < 6 })
        /\ stats.high_potential_targets =
               Cardinality({ i \in AnalyzedOK :
                               /\ analyzed_companies[i].ai_washing_score >= 6
                               /\ analyzed_companies[i].strategic_fit_score >= 7 })

-----------------------------------------------------------------------------
(* _generate_discovery_report on an engine able to build the report *)

CounterValues == 0..2

\* an engine whose DatabaseManager has been initialized and whose
\* stats['run_end_time'] holds a time or None, at line 65 of a run that
\* analysed none, one or two records
InitReport ==
    /\ pc = "report"
    /\ issues = FALSE
    /\ db_pool = "open" /\ tables_created = TRUE
    /\ engine_pool \in { "None", "open" }
    /\ yc_out = Returns(<< yc_acme, yc_foo >>)
    /\ gw_out = CollectorRaised /\ li_out = CollectorRaised
    /\ all_companies = << yc_acme, yc_foo >>
    /\ unique_companies = << yc_acme, yc_foo >>
    /\ \E web \in PipelineWebs, fails \in [ 1..2 -> EngineFailPoints ] :
          /\ analyzed_companies =
                 analyze_all(unique_companies, web, fails, fresh_stats).analyzed
          /\ fail_log = fails
    /\ idx = 3
    /\ stats \in [ companies_discovered : { 2 }, companies_analyzed : CounterValues,
                   high_potential_targets : { 0 }, ai_washing_filtered : CounterValues,
                   run_start_time : { << "now" >> },
                   run_end_time : { None, << "earlier" >> } ]
    /\ report = NoReport
    /\ error = NoError
    /\ result = "none"
    /\ discovery_runs = << >>
    /\ storage_failed = FALSE
    /\ stages = SubSeq(StageOrder, 1, 4)
    /\ fn = "none" /\ arg = None /\ ret = None

NextReport == GenerateReport \/ FinishRun \/ HandleFailure \/ Finally

SpecReport == InitReport /\ [][NextReport]_vars

\* the statistics a reader of the report sees
ReportStatistics == IF report.statistics = "self.stats" THEN stats ELSE fresh_stats

-----------------------------------------------------------------------------
(* Configuration issues *)

\* C17: when validation reports an issue, the discover command fails before
\* the discover stage: no collector is invoked, no company is analysed and no
\* storage operation (pool, tables, company rows, run rows) is performed.
C17_InvalidConfigStopsBeforeDiscovery ==
    issues =>
        /\ pc \in { "idle", "exit" }
        /\ pc = "exit" => result = "False"
        /\ stages = << >>
        /\ ~yc_out.called /\ ~gw_out.called /\ ~li_out.called
        /\ all_companies = << >> /\ analyzed_companies = << >> /\ fail_log = << >>
        /\ stats = fresh_stats
        /\ db_pool = "None" /\ engine_pool = "None" /\ ~tables_created
        /\ discovery_runs = << >>
        /\ ~report.built

C17_Witness ==
    /\ issues
    /\ pc = "exit"
    /\ result = "False"
    /\ ~yc_out.called
    /\ db_pool = "None"

-----------------------------------------------------------------------------
(* Single calls of get_top_companies, as _generate_discovery_report makes them *)

\* limit=10 at discovery_engine.py line 259
TopLimit == 10

MaxRows == 2

RowPool ==
    { CompanyRow(s_Acme, None, fit, ai, t) :
        fit \in { -1, 4, 6 }, ai \in { -1, 0, 7 }, t \in 1..2 }

\* nine more rows of the table
FillerRows ==
    << CompanyRow(s_Foo, None, 6, 7, 3), CompanyRow(s_Foo, None, 4, 2, 3),
       CompanyRow(s_Foo, None, 8, 1, 3), CompanyRow(s_Foo, None, -1, 9, 3),
       CompanyRow(s_Cee, None, 6, 0, 4), CompanyRow(s_Cee, None, 4, 7, 4),
       CompanyRow(s_Cee, None, 2, -1, 4), CompanyRow(s_Cee, None, -1, -1, 4),
       CompanyRow(s_Cee, None, 6, 7, 5) >>

InitTop ==
    /\ RunParked
    /\ fn = "none"
    /\ \E base \in SeqsUpTo(RowPool, MaxRows), rest \in { << >>, FillerRows } :
          arg = base \o rest
    /\ ret = None

CallGetTopCompanies ==
    /\ fn = "none"
    /\ fn' = "get_top_companies"
    /\ ret' = get_top_companies(arg, TopLimit)
    /\ UNCHANGED << arg, runVars >>

NextTop == CallGetTopCompanies

SpecTop == InitTop /\ [][NextTop]_vars

\* a ranks at least as high as b: higher fit score; on equal fit scores higher
\* AI-washing score; on equal scores updated no earlier (an absent score, -1,
\* is below every score)
RanksAtLeast(a, b) ==
    \/ a.strategic_fit_score > b.strategic_fit_score
    \/ /\ a.strategic_fit_score = b.strategic_fit_score
       /\ \/ a.ai_washing_score > b.ai_washing_score
          \/ /\ a.ai_washing_score = b.ai_washing_score
             /\ a.updated_at >= b.updated_at

Copies(rows, r) == Cardinality({ k \in 1..Len(rows) : rows[k] = r })

\* C18: the top targets are at most 10 rows of the table, ordered by
\* strategic fit score descending, ties by AI-washing score descending,
\* further ties by most recent update, and no row left out ranks above one
\* that is in.
C18_TopTargetsRanked ==
    fn = "get_top_companies" =>
        /\ Len(ret) = Min(10, Len(arg))
        /\ \A i, j \in 1..Len(ret) : i < j => RanksAtLeast(ret[i], ret[j])
        /\ \A i \in 1..Len(ret) : Copies(ret, ret[i]) <= Copies(arg, ret[i])
        /\ \A k \in 1..Len(arg) :
              Copies(ret, arg[k]) < Copies(arg, arg[k]) =>
                  RanksAtLeast(ret[Len(ret)], arg[k])

\* C18 witness: a table of 11 rows cut to 10, with a tie on the fit score
\* decided by the AI-washing score and a tie on both decided by the update
\* time.
C18_Witness ==
    /\ fn = "get_top_companies"
    /\ Len(arg) = 11
    /\ Len(ret) = 10
    /\ ret[1].strategic_fit_score = 8
    /\ \E i \in 1..9 :
          /\ ret[i].strategic_fit_score = ret[i + 1].strategic_fit_score
          /\ ret[i].ai_washing_score > ret[i + 1].ai_washing_score
    /\ \E i \in 1..9 :
          /\ ret[i].strategic_fit_score = ret[i + 1].strategic_fit_score
          /\ ret[i].ai_washing_score = ret[i + 1].ai_washing_score
          /\ ret[i].updated_at > ret[i + 1].updated_at

-----------------------------------------------------------------------------
(* The job-mix sub-score against the postings found *)

\* C19: for a company with a name, the job-mix sub-score is 3 when there is no
\* job data and otherwise the score of the ratio of title weights to postings
\* (10 from 0.30, 8 from 0.20, 6 from 0.15, 4 from 0.10, else 2).
C19_JobScoreFollowsRatio ==
    (fn = "calculate_ai_washing_score" /\ truthy(arg.company.name)) =>
        ret.jobs_score.val =
            IF mock_jobs = << >> THEN 3 * Unit ELSE job_ratio_score(mock_jobs)

-----------------------------------------------------------------------------
(* The blog-depth sub-score when no blog is found *)

\* no blog is found: the company has no website, no blog URL is discovered,
\* or none of the pages looked at (the first three) gives content
NoBlogFound(company, web) ==
    \/ ~truthy(company.website)
    \/ web.blog.find = "none"
    \/ /\ web.blog.find = "ok"
       /\ \A k \in 1..Min(3, Len(web.blog.posts)) : web.blog.posts[k].kind # "page"

\* C20: whenever no blog is found the blog-depth sub-score is 2, never 0.
C20_NoBlogScoresTwo ==
    (fn = "calculate_ai_washing_score" /\ NoBlogFound(arg.company, arg.web)) =>
        ret.blog_score.val = 2 * Unit

-----------------------------------------------------------------------------
(* The score of a company about which nothing is found *)

\* C21: when the four sub-analyses give their absent-data defaults (blog 2,
\* jobs 3, GitHub 2, marketing 5), calculate_ai_washing_score returns 2.
C21_AllDefaultsScoreTwo ==
    ( /\ fn = "calculate_ai_washing_score"
      /\ ret.blog_score.val = 2 * Unit
      /\ ret.jobs_score.val = 3 * Unit
      /\ ret.github_score.val = 2 * Unit
      /\ ret.marketing_score.val = 5 * Unit ) => ret.val = 2

\* C21 witness: a company with name and website for which the blog search,
\* the organization search and the marketing read all fail.
C21_Witness ==
    /\ fn = "calculate_ai_washing_score"
    /\ truthy(arg.company.website) /\ truthy(arg.company.name)
    /\ arg.web.blog.find = "raise"
    /\ arg.web.github.org = "raise"
    /\ arg.web.marketing.kind = "raise"
    /\ ret.blog_score.val = 2 * Unit
    /\ ret.jobs_score.val = 3 * Unit
    /\ ret.github_score.val = 2 * Unit
    /\ ret.marketing_score.val = 5 * Unit
    /\ ret.val = 2

-----------------------------------------------------------------------------
(* Single evaluations of the marketing score *)

\* the lists of lines 382-391 have 9 specific and 6 vague claims
SpecificCounts == 0..9
VagueCounts    == 0..6
Integrations   == SUBSET { "chatgpt", "openai api" }

InitMarketing ==
    /\ RunParked
    /\ fn = "none"
    /\ arg \in [ specific : SpecificCounts, vague : VagueCounts, mentions : Integrations ]
    /\ ret = None

\* lines 393-406 on content with the given counts and mentions; line 402 asks
\* for either mention
CallMarketingScore ==
    /\ fn = "none"
    /\ fn' = "marketing_score"
    /\ ret' = marketing_score(Marketing("content", arg.specific, arg.vague,
                                        arg.mentions # { }))
    /\ UNCHANGED << arg, runVars >>

NextMarketing == CallMarketingScore

SpecMarketing == InitMarketing /\ [][NextMarketing]_vars

\* base 5, plus half a point per specific claim up to 3, minus three tenths
\* per vague claim up to 3, in 1/Unit
MarketingBeforeWrapper(specific, vague) ==
    5 * Unit + Min(3 * Unit, (specific * Unit) \div 2)
             - Min(3 * Unit, (vague * 3 * Unit) \div 10)

\* C22: the marketing score is base 5 plus at most 3 minus at most 3, and the
\* wrapper penalty of 3 is subtracted if and only if the content mentions
\* 'chatgpt' or 'openai api' and no specific claim is found; the result is
\* kept within [1,10].
C22_WrapperPenaltyIffNoSpecificClaim ==
    fn = "marketing_score" =>
        LET wrapper == ("chatgpt" \in arg.mentions \/ "openai api" \in arg.mentions)
                           /\ arg.specific = 0
            before  == MarketingBeforeWrapper(arg.specific, arg.vague)
        IN  ret = Max(Unit, Min(10 * Unit, IF wrapper THEN before - 3 * Unit ELSE before))

\* C22 witness: an 'openai api' mention and no specific claim: 5 - 3 = 2.
C22_Witness ==
    /\ fn = "marketing_score"
    /\ arg = [ specific |-> 0, vague |-> 0, mentions |-> { "openai api" } ]
    /\ ret = 2 * Unit

\* a 'chatgpt' mention beside one specific claim: no penalty, 5.5
C22_WitnessNoPenalty ==
    /\ fn = "marketing_score"
    /\ arg = [ specific |-> 1, vague |-> 0, mentions |-> { "chatgpt" } ]
    /\ 2 * ret = 11 * Unit

-----------------------------------------------------------------------------
(* The two GitHub analyses of one record: the detector's sub-score and the
   analyzer's footprint *)

FootprintEnvs ==
    { Footprint("none", 0, 0, 0, 0, FALSE),
      Footprint("found", 0, 0, 0, 0, FALSE),
      Footprint("found", 2, 1, 1, 1, TRUE),
      Footprint("found", 3, 0, 1, 0, FALSE),
      Footprint("found", 3, 0, 1, 0, TRUE),
      Footprint("found", 4, 4, 4, 4, TRUE) }

GithubWebs == [ github : GithubEnvs, footprint : FootprintEnvs ]

GithubCompanies == { c \in DetectorCompanies : c.description = "" }

InitGithub ==
    /\ RunParked
    /\ fn = "none"
    /\ arg \in [ company : GithubCompanies, web : GithubWebs ]
    /\ ret = None

\* discovery_engine.py lines 141-146: the AI-washing score, with its GitHub
\* sub-score (ai_washing_detector.py line 54), is computed first and the
\* analyzer is called afterwards; neither call receives the other's result
CallGithubAnalyses ==
    /\ fn = "none"
    /\ fn' = "github_analyses"
    /\ ret' = [ github_score    |-> _analyze_github_presence(arg.company, arg.web),
                github_analysis |-> analyze_company_github(arg.company, arg.web) ]
    /\ UNCHANGED << arg, runVars >>

NextGithub == CallGithubAnalyses

SpecGithub == InitGithub /\ [][NextGithub]_vars

\* C23: the technical-footprint sub-score of the AI-washing score is derived
\* from the record's analyze_company_github result (two records with the same
\* result have the same sub-score), and it is 2 when no footprint is found.
C23_SubScoreDerivedFromFootprint ==
    fn = "github_analyses" =>
        /\ ~ret.github_analysis.organization_found => ret.github_score.val = 2 * Unit
        /\ \A c \in GithubCompanies, w \in GithubWebs :
               analyze_company_github(c, w) = ret.github_analysis =>
                   _analyze_github_presence(c, w) = ret.github_score

-----------------------------------------------------------------------------
(* Single calls of analyze_company_github *)

\* the largest number of repositories an organization has
MaxRepos == 5

\* what the GitHub API can answer: no organization, or an organization whose
\* repositories hold python ones, ML-related ones and, among the ML-related
\* ones, projects with more than 50 stars or 10 forks
Footprints ==
    { Footprint("none", 0, 0, 0, 0, FALSE) } \cup
    { Footprint("found", total, ml, python, projects, recent) :
        total \in 0..MaxRepos, ml \in 0..MaxRepos, python \in 0..MaxRepos,
        projects \in 0..MaxRepos, recent \in BOOLEAN }

InitFootprint ==
    /\ RunParked
    /\ fn = "none"
    /\ arg \in [ company : GithubCompanies, web : [ footprint : Footprints ] ]
    /\ arg.web.footprint.ml <= arg.web.footprint.total
    /\ arg.web.footprint.python <= arg.web.footprint.total
    /\ arg.web.footprint.projects <= arg.web.footprint.ml
    /\ ret = None

CallAnalyzeCompanyGithub ==
    /\ fn = "none"
    /\ fn' = "analyze_company_github"
    /\ ret' = analyze_company_github(arg.company, arg.web)
    /\ UNCHANGED << arg, runVars >>

NextFootprint == CallAnalyzeCompanyGithub

SpecFootprint == InitFootprint /\ [][NextFootprint]_vars

\* the points of one ratio, in 1/Unit: factor times part/total, at most cap
RatioPoints(part, total, factor, cap) ==
    IF total > 0 THEN Min(cap * Unit, (factor * Unit * part) \div total) ELSE 0

\* C24: with no organization resolved the result has organization_found false
\* and score 0; with an organization the score is an integer in [2,10]: the
\* whole part of 2, plus at most 3 for the ML-repository ratio, at most 2 for
\* the Python ratio, at most 2 for the high-visibility ML projects (half a
\* point each) and 1 for recent activity.
C24_FootprintScoreRubric ==
    fn = "analyze_company_github" =>
        LET f == arg.web.footprint
            resolved == f.org = "found"
                            /\ (truthy(arg.company.website) \/ truthy(arg.company.name))
            points == 2 * Unit
                        + RatioPoints(f.ml, f.total, 10, 3)
                        + RatioPoints(f.python, f.total, 4, 2)
                        + Min(2 * Unit, (f.projects * Unit) \div 2)
                        + (IF f.recent THEN Unit ELSE 0)
        IN  IF resolved
            THEN /\ ret.organization_found
                 /\ ret.ml_contributions_score \in 2..10
                 /\ ret.ml_contributions_score = points \div Unit
            ELSE /\ ~ret.organization_found
                 /\ ret.ml_contributions_score = 0

\* C24 witness: an organization whose five repositories are all ML-related
\* Python projects of high visibility, with recent activity: 2+3+2+2+1 = 10.
C24_Witness ==
    /\ fn = "analyze_company_github"
    /\ arg.web.footprint = Footprint("found", 5, 5, 5, 5, TRUE)
    /\ truthy(arg.company.name)
    /\ ret.organization_found
    /\ ret.ml_contributions_score = 10

\* an organization without repositories scores the base 2
C24_WitnessBase ==
    /\ fn = "analyze_company_github"
    /\ arg.web.footprint = Footprint("found", 0, 0, 0, 0, FALSE)
    /\ truthy(arg.company.website)
    /\ ret.ml_contributions_score = 2

\* no organization resolved
C24_WitnessNotFound ==
    /\ fn = "analyze_company_github"
    /\ arg.web.footprint.org = "none"
    /\ truthy(arg.company.name)
    /\ ~ret.organization_found
    /\ ret.ml_contributions_score = 0

-----------------------------------------------------------------------------
(* GitHubAnalyzer._analyze_repositories on the repositories of an organization *)

\* one repository as the API lists it: how many terms of github_ml_indicators
\* and of high_value_keywords its name and description hold, its language, its
\* stars, and whether it was updated in the last 30 days
Repository(indicators, high_value, language, stars, recent) ==
    [ indicators |-> indicators, high_value |-> high_value, language |-> language,
      stargazers_count |-> stars, forks_count |-> 0, recent |-> recent ]

\* _score_repository_for_ml (lines 289-339), in 1/Unit
_score_repository_for_ml(repo) ==
    LET keywords == repo.indicators * Unit
        language == IF repo.language = "Python" THEN Unit
                    ELSE IF repo.language \in { "R", "Julia", "Scala" } THEN Unit \div 2
                    ELSE 0
        high     == repo.high_value * 2 * Unit
        stars    == (IF repo.stargazers_count > 100 THEN Unit ELSE 0)
                      + (IF repo.stargazers_count > 1000 THEN Unit ELSE 0)
        activity == IF repo.recent THEN Unit \div 2 ELSE 0
    IN  Min(10 * Unit, keywords + language + high + stars + activity)

\* lines 257-260: the repositories counted in ml_related_repos
ml_repositories(repos) ==
    { i \in DOMAIN repos : _score_repository_for_ml(repos[i]) > 0 }

\* _analyze_repositories (lines 235-287): the counts of the analysis
_analyze_repositories(repos) ==
    [ total_repositories  |-> Len(repos),
      python_repositories |-> Cardinality({ i \in DOMAIN repos : repos[i].language = "Python" }),
      ml_related_repos    |-> Cardinality(ml_repositories(repos)),
      open_source_ml_projects |->
          Cardinality({ i \in ml_repositories(repos) :
                          \/ repos[i].stargazers_count > 50
                          \/ repos[i].forks_count > 10 }) ]

\* the longest list of repositories analysed
MaxListed == 2

RepoPool ==
    { Repository(k, h, l, s, a) :
        k \in 0..1, h \in 0..1, l \in { "Python", "R", "Go" },
        s \in { 0, 150 }, a \in BOOLEAN }

InitRepos ==
    /\ RunParked
    /\ fn = "none"
    /\ arg \in SeqsUpTo(RepoPool, MaxListed)
    /\ ret = None

CallAnalyzeRepositories ==
    /\ fn = "none"
    /\ fn' = "_analyze_repositories"
    /\ ret' = _analyze_repositories(arg)
    /\ UNCHANGED << arg, runVars >>

NextRepos == CallAnalyzeRepositories

SpecRepos == InitRepos /\ [][NextRepos]_vars

\* a repository whose name or description holds an ML keyword
NamesMLKeyword(repo) == repo.indicators > 0 \/ repo.high_value > 0

\* C25: ml_related_repos counts exactly the repositories whose name or
\* description holds an ML keyword; language, stars and update date alone
\* never make a repository ML-related.
C25_MLRelatedIffKeyword ==
    fn = "_analyze_repositories" =>
        ret.ml_related_repos = Cardinality({ i \in DOMAIN arg : NamesMLKeyword(arg[i]) })

-----------------------------------------------------------------------------
(* Discovery and deduplication on what three collectors return *)

\* _discover_companies (lines 76-108): the three try blocks in order
_discover_companies(yc, gw, li) ==
    extend_from(extend_from(extend_from(<< >>, yc), gw), li)

Locations    == { "seattle", "austin" }
Descriptions == { "health", "games" }

\* A with website "foo.com"; B without website (None or ''), named "Foo"; the
\* duplicate of A with website "www.foo.com"; C with website "bar.io"
ScenarioA  == { Company(s_Acme, s_foo_com, "y_combinator", l, d, "", 0) :
                  l \in Locations, d \in Descriptions }
ScenarioB  == { Company(s_Foo, w, "y_combinator", l, d, "", 0) :
                  w \in { None, s_empty }, l \in Locations, d \in Descriptions }
ScenarioA2 == { Company(s_Acme, s_www \o s_foo_com, "geekwire", l, d, "", 0) :
                  l \in Locations, d \in Descriptions }
ScenarioC  == { Company(s_Cee, s_bar_io, "linkedin_jobs", l, d, "", 0) :
                  l \in Locations, d \in Descriptions }

InitScenario ==
    /\ RunParked
    /\ fn = "none"
    /\ \E a \in ScenarioA, b \in ScenarioB, a2 \in ScenarioA2, c \in ScenarioC :
          arg = [ yc |-> Returns(<< a, b >>), gw |-> Returns(<< a2 >>),
                  li |-> Returns(<< c >>) ]
    /\ ret = None

\* run_daily_discovery lines 54-58: discovery, then deduplication
CallDiscoverAndDeduplicate ==
    /\ fn = "none"
    /\ fn' = "discover_and_deduplicate"
    /\ ret' = _deduplicate_companies(_discover_companies(arg.yc, arg.gw, arg.li))
    /\ UNCHANGED << arg, runVars >>

NextScenario == CallDiscoverAndDeduplicate

SpecScenario == InitScenario /\ [][NextScenario]_vars

\* C26: when the collectors return {A with website "foo.com", B named "Foo"
\* without website}, {a duplicate of A with website "www.foo.com"} and {C with
\* website "bar.io"}, discovery and deduplication give exactly A, B and C,
\* where A is the record of the first collector.
C26_ScenarioYieldsABC ==
    fn = "discover_and_deduplicate" =>
        ret = << arg.yc.companies[1], arg.yc.companies[2], arg.li.companies[1] >>

\* C26 witness: the duplicate differs from A in its description, and the A
\* that is kept is the first collector's.
C26_Witness ==
    /\ fn = "discover_and_deduplicate"
    /\ arg.gw.companies[1].website = s_www \o s_foo_com
    /\ arg.gw.companies[1].description # arg.yc.companies[1].description
    /\ arg.yc.companies[2].website = None
    /\ Len(ret) = 3
    /\ ret[1] = arg.yc.companies[1]
    /\ ret[1].source = "y_combinator"
    /\ ret[3].website = s_bar_io

-----------------------------------------------------------------------------
(* The DatabaseManager the engine stores through *)

\* _store_results has called upsert_company (line 250): the store stage was
\* entered with at least one analysed record
UpsertCalled ==
    \E i \in DOMAIN stages : stages[i] = "store" /\ analyzed_companies # << >>

\* C27: when the engine calls upsert_company or get_top_companies, the
\* DatabaseManager it calls has completed initialize(): its pool exists.
C27_EngineDatabaseInitializedBeforeUse ==
    UpsertCalled => engine_pool = "open"

-----------------------------------------------------------------------------
(* The counters of the first run of a fresh engine, from the return of
   _discover_companies to the return of _analyze_companies *)

\* the most records the collectors return
MaxDiscovered == 3

\* records a collector may return, also ones that carry a funding stage and a
\* head count
AnalysisPool == { rec_A, rec_B, rec_C }

\* run_daily_discovery at line 58 of the first run: the collectors returned
\* all_companies and line 107 has counted them
InitAnalysis ==
    /\ pc = "deduplicate"
    /\ issues = FALSE
    /\ db_pool = "open" /\ tables_created = TRUE
    /\ engine_pool = "None"
    /\ all_companies \in SeqsUpTo(AnalysisPool, MaxDiscovered)
    /\ yc_out = Returns(all_companies)
    /\ gw_out = Returns(<< >>) /\ li_out = CollectorRaised
    /\ unique_companies = << >>
    /\ analyzed_companies = << >>
    /\ idx = 0
    /\ fail_log = << >>
    /\ stats = [ fresh_stats EXCEPT !.run_start_time = << "now" >>,
                                    !.companies_discovered = Len(all_companies) ]
    /\ report = NoReport
    /\ error = NoError
    /\ result = "none"
    /\ discovery_runs = << >>
    /\ storage_failed = FALSE
    /\ stages = << "discover" >>
    /\ fn = "none" /\ arg = None /\ ret = None

NextAnalysis == Deduplicate \/ AnalyzeStart \/ AnalyzeCompany \/ AnalyzeReturn

SpecAnalysis == InitAnalysis /\ [][NextAnalysis]_vars

\* the records of analyzed_companies whose analysis did not raise
Succeeded == { i \in DOMAIN analyzed_companies : fail_log[i] = "none" }

HighPotential ==
    { i \in Succeeded :
        /\ analyzed_companies[i].ai_washing_score >= min_ai_washing_score
        /\ analyzed_companies[i].strategic_fit_score >= 7 }

Filtered ==
    { i \in Succeeded : analyzed_companies[i].ai_washing_score < min_ai_washing_score }

\* C28: in every state of the first run, high_potential_targets +
\* ai_washing_filtered <= companies_analyzed <= number of deduplicated records
\* <= companies_discovered (the middle bound from the moment the records are
\* deduplicated); each counter counts its own records among those analysed
\* without exception, so that no record is counted both as high-potential and
\* as filtered and a failed record is counted nowhere.
C28_CountersOrderedAndDisjoint ==
    /\ stats.high_potential_targets + stats.ai_washing_filtered <= stats.companies_analyzed
    /\ stats.companies_analyzed <= Len(unique_companies)
    /\ Len(unique_companies) <= stats.companies_discovered
    /\ stats.companies_analyzed = Cardinality(Succeeded)
    /\ stats.high_potential_targets = Cardinality(HighPotential)
    /\ stats.ai_washing_filtered = Cardinality(Filtered)
    /\ HighPotential \cap Filtered = { }

\* C28 witness: the analysis of three records is over; one raised, one is a
\* high-potential target and one was filtered.
C28_Witness ==
    /\ pc = "store"
    /\ stats.companies_discovered = 3
    /\ Len(unique_companies) = 3
    /\ \E i \in DOMAIN fail_log : fail_log[i] # "none"
    /\ stats.high_potential_targets = 1
    /\ stats.ai_washing_filtered = 1
    /\ stats.companies_analyzed = 2

\* a duplicate was discovered: fewer records are deduplicated than discovered
C28_WitnessDuplicate ==
    /\ pc = "store"
    /\ Len(unique_companies) < stats.companies_discovered
    /\ stats.companies_analyzed < Len(unique_companies)
    /\ stats.high_potential_targets = 1

-----------------------------------------------------------------------------
(* upsert_company called on several pool connections *)

\* the connections of the pool that run upsert_company at the same time
Connections == { "conn1", "conn2" }

\* the most calls made on one connection
MaxCalls == 2

\* company_data of a call: the columns the SELECT and the table constraint read
UpsertData(name, website) ==
    [ name |-> name, website |-> website, strategic_fit_score |-> 5,
      ai_washing_score |-> 5 ]

UpsertPool ==
    { UpsertData(s_Acme, None), UpsertData(s_Acme, s_foo_com),
      UpsertData(s_Foo, s_foo_com) }

\* UNIQUE(name, website) of _create_tables (line 75): a row with the same name
\* and the same website is in the table; rows with a NULL website are never
\* equal under the constraint
UniqueViolation(table, company) ==
    \E k \in 1..Len(table) :
        /\ table[k].name = company.name
        /\ company.website # None
        /\ table[k].website = company.website

\* _update_company (lines 202-225) on the row with id k
_update_company(table, k, company, now) ==
    [ table EXCEPT ![k] =
        [ @ EXCEPT !.strategic_fit_score = Coalesce(company.strategic_fit_score, @),
                   !.ai_washing_score = Coalesce(company.ai_washing_score, @),
                   !.updated_at = now ] ]

\* _insert_company (lines 173-200); the INSERT raises and adds nothing when the
\* table constraint is violated
_insert_company(table, company, now) ==
    IF UniqueViolation(table, company) THEN table
    ELSE Append(table, CompanyRow(company.name, company.website,
                                  company.strategic_fit_score,
                                  company.ai_washing_score, now))

\* arg[c] is the list of calls made on connection c, one after the other; ret
\* holds the companies table, and for each connection the call it is in, the
\* statement it is at and the existing_id its SELECT returned
InitUpsert ==
    /\ RunParked
    /\ fn = "upsert_company"
    /\ arg \in [ Connections -> SeqsUpTo(UpsertPool, MaxCalls) ]
    /\ ret = [ table    |-> << >>,
               call     |-> [ c \in Connections |-> 1 ],
               at       |-> [ c \in Connections |-> "select" ],
               existing |-> [ c \in Connections |-> 0 ] ]

\* lines 149-154: the SELECT of the call on connection c
UpsertSelect(c) ==
    /\ fn = "upsert_company"
    /\ ret.call[c] <= Len(arg[c])
    /\ ret.at[c] = "select"
    /\ ret' = [ ret EXCEPT !.existing[c] = ExistingRow(ret.table, arg[c][ret.call[c]]),
                           !.at[c] = "write" ]
    /\ UNCHANGED << fn, arg, runVars >>

\* lines 156-161: the UPDATE of the row found, or the INSERT when none was found
UpsertWrite(c) ==
    /\ fn = "upsert_company"
    /\ ret.call[c] <= Len(arg[c])
    /\ ret.at[c] = "write"
    /\ LET company == arg[c][ret.call[c]]
           now     == Len(ret.table) + 1
       IN  ret' = [ ret EXCEPT
                      !.table = IF ret.existing[c] # 0
                                THEN _update_company(@, ret.existing[c], company, now)
                                ELSE _insert_company(@, company, now),
                      !.call[c] = @ + 1,
                      !.at[c] = "select",
                      !.existing[c] = 0 ]
    /\ UNCHANGED << fn, arg, runVars >>

NextUpsert == \E c \in Connections : UpsertSelect(c) \/ UpsertWrite(c)

SpecUpsert == InitUpsert /\ [][NextUpsert]_vars

\* C29: whatever the calls and however they interleave, no two rows of the
\* companies table have the same name, and no two rows the same non-null
\* website.
C29_NoDuplicateRows ==
    fn = "upsert_company" =>
        \A j, k \in 1..Len(ret.table) :
            j # k =>
                /\ ret.table[j].name # ret.table[k].name
                /\ ret.table[j].website = None
                     \/ ret.table[j].website # ret.table[k].website

-----------------------------------------------------------------------------
(* GitHubAnalyzer._get_organization_repositories: the paging loop *)

\* github_analyzer.py line 203
per_page == 100

\* line 206: while len(repos) < 500
max_repos == 500

\* ret holds len(repos), the page asked next, and how the loop ended once the
\* call has returned ("no" before)
InitPaging ==
    /\ RunParked
    /\ fn = "_get_organization_repositories"
    /\ arg = s_Acme
    /\ ret = [ len_repos |-> 0, page |-> 1, returned |-> "no" ]

\* lines 215-225: status 200 with a page of n repositories, which are added
GetPage ==
    /\ ret.returned = "no"
    /\ ret.len_repos < max_repos
    /\ \E n \in 1..per_page :
          ret' = [ ret EXCEPT !.len_repos = @ + n, !.page = @ + 1 ]
    /\ UNCHANGED << fn, arg, runVars >>

\* lines 218-219: status 200 with an empty page ends the loop
GetEmptyPage ==
    /\ ret.returned = "no"
    /\ ret.len_repos < max_repos
    /\ ret' = [ ret EXCEPT !.returned = "empty page" ]
    /\ UNCHANGED << fn, arg, runVars >>

\* lines 226-231: another status, or an exception of the request, ends the loop
GetPageFails ==
    /\ ret.returned = "no"
    /\ ret.len_repos < max_repos
    /\ ret' = [ ret EXCEPT !.returned = "failed" ]
    /\ UNCHANGED << fn, arg, runVars >>

\* line 206 false: the loop is left and line 233 returns repos
ReturnAtLimit ==
    /\ ret.returned = "no"
    /\ ret.len_repos >= max_repos
    /\ ret' = [ ret EXCEPT !.returned = "limit" ]
    /\ UNCHANGED << fn, arg, runVars >>

NextPaging == GetPage \/ GetEmptyPage \/ GetPageFails \/ ReturnAtLimit

SpecPaging == InitPaging /\ [][NextPaging]_vars

\* C30: whatever pages of 0 to 100 repositories the API answers, the list
\* returned holds at most 500 repositories.
C30_AtMostFiveHundredRepositories ==
    (fn = "_get_organization_repositories" /\ ret.returned # "no") => ret.len_repos <= 500

====
